---------------------------- MODULE Spec2Model ----------------------------
(***************************************************************************)
(* A model of the pytribeam GUI core:                                      *)
(*   - the LUT engine (lookup.py: LUT.flatten / LUT.unflatten /            *)
(*     VersionedLUT.get_lut),                                              *)
(*   - the pipeline configuration model (pipeline_model.py),               *)
(*   - the experiment run loop (runner/experiment_controller.py).          *)
(*                                                                         *)
(* Python values are modelled as follows.                                  *)
(*   - A dict is an ORDERED map: a sequence of [k, v] pairs with distinct  *)
(*     keys (insertion order), as in CPython.                              *)
(*   - A LUT key or a flattened path is a Python str; it is modelled as a  *)
(*     sequence of tokens, a token being either the separator "/" or a     *)
(*     separator-free piece of text, so that f"{prefix}{name}" is          *)
(*     concatenation and str.split("/") is a split at the "/" tokens.      *)
(*   - Parameter values are Python objects tagged with their type:         *)
(*     [t |-> "str", v |-> "7"], [t |-> "int", v |-> 7], [t |-> "none"].   *)
(***************************************************************************)
EXTENDS Integers, Sequences, FiniteSets, TLC

VARIABLES
    \* ---- LUT engine (lookup.py) ----
    lut_master,     \* VersionedLUT.LUTs[step_type]._entries (the master tree)
    lut_work,       \* the _entries of a deep copy of it, flattened/unflattened
    lut_phase,      \* "build" | "flat" | "unflat" | "error"
    lut_result,     \* the last value returned by VersionedLUT.get_lut
    lut_version     \* the version passed to that get_lut call (0: no call yet)

VARIABLES
    \* ---- pipeline configuration model (pipeline_model.py) ----
    pipeline,       \* the PipelineConfig: [version, general, steps], or NoPipeline
    p_last,         \* the last operation called on it, with its arguments and result
    p_edits,        \* number of rename_step / set_param calls made so far
    reloaded        \* result of to_yaml followed by from_yaml, or NoPipeline

VARIABLES
    \* ---- experiment run loop (runner/experiment_controller.py) ----
    cfg,            \* the validated configuration: [slices, steps] (max_slice_number, step_count)
    state,          \* ExperimentController.state (the ExperimentState object)
    nruns,          \* number of worker threads started so far; self._thread is run nruns
    wk,             \* per run: the worker thread's position and local variables
    kbi,            \* per run: a KeyboardInterrupt set by raise_exception, not yet raised
    ui,             \* the UI thread: its position, and the outcome of its last call
    hist            \* per run: what the run has done so far (history, not program state)

VARIABLES
    \* ---- configuration editor (config_ui/editor_controller.py) ----
    current_step_index, \* EditorController.current_step_index
    ed_version,         \* EditorController._version
    validator_version,  \* the version the ConfigValidator was last set to
    ed_last             \* the last EditorController call and its outcome

VARIABLES
    \* ---- files and conversions (pipeline_model.py) ----
    document,       \* the YAML document from_yaml reads: [config_file_version, general, steps]
    conv            \* a _check_value_type call: its arguments and its result

VARIABLES
    \* ---- progress arithmetic (experiment_controller.py) ----
    prog,               \* an _update_progress call: its arguments and its result
    \* ---- application settings (common/config_manager.py) ----
    recent_configs,     \* AppConfig.recent_configs
    max_recent_files,   \* AppConfig.max_recent_files
    added               \* the strings add_recent_config was called with, in order (history)

lutVars == <<lut_master, lut_work, lut_phase, lut_result, lut_version>>
pipeVars == <<pipeline, p_last, p_edits, reloaded>>

runVars == <<cfg, state, nruns, wk, kbi, ui, hist>>

edVars == <<current_step_index, ed_version, validator_version, ed_last>>
ioVars == <<document, conv>>
appVars == <<prog, recent_configs, max_recent_files, added>>

vars == <<lutVars, pipeVars, runVars, edVars, ioVars, appVars>>

(***************************************************************************)
(* Bounds of the model.                                                    *)
(***************************************************************************)
MaxNodes == 4        \* fields + groups in a LUT tree built by add_entry
NumVersions == 3     \* the known versions are 1..NumVersions
MaxSteps == 3        \* add_step / duplicate_step are called while len(steps) < MaxSteps
MaxIOSteps == 2      \* the same, in the specification with saving and loading
MaxEdits == 1        \* rename_step / set_param calls per behaviour
MaxSlices == 3       \* max_slice_number of the configuration is in 1..MaxSlices
MaxStepsPerSlice == 2 \* step_count of the configuration is in 1..MaxStepsPerSlice
MaxRuns == 1         \* start_experiment launches at most MaxRuns worker threads
MaxWorkers == 2      \* worker threads of the behaviours that start a run again
MaxRelaunchSlices == 1  \* slices of the configurations that are run again
MaxProgSlices == 10  \* total_slices of the _update_progress calls examined alone
MaxProgSteps == 5    \* total_steps of the _update_progress calls examined alone
MaxRecent == 2       \* AppConfig.max_recent_files is drawn from 0..MaxRecent
MaxAdds == 4         \* add_recent_config calls of one behaviour
MaxDocSteps == 3     \* step entries written to a document before it is loaded
MaxStepNumber == 4   \* a declared step_number is in 1..MaxStepNumber
MaxPad == 1          \* whitespace characters on either side of a value to convert
MaxEdSteps == 2      \* the editor adds / duplicates steps while len(steps) < MaxEdSteps

(***************************************************************************)
(* Python dict (ordered map) helpers.                                      *)
(***************************************************************************)
DictKeys(d) == { d[n].k : n \in 1..Len(d) }

DictHas(d, key) == \E n \in 1..Len(d) : d[n].k = key

DictGet(d, key) == d[CHOOSE n \in 1..Len(d) : d[n].k = key].v

\* d[key] = value: an existing key keeps its position, a new key is appended.
DictSet(d, key, value) ==
    IF DictHas(d, key)
    THEN [n \in 1..Len(d) |-> IF d[n].k = key THEN [k |-> key, v |-> value] ELSE d[n]]
    ELSE Append(d, [k |-> key, v |-> value])

\* d.pop(key)
DictRemove(d, key) == SelectSeq(d, LAMBDA e : e.k # key)

\* d.update(e)
RECURSIVE DictUpdate(_, _)
DictUpdate(d, e) ==
    IF e = <<>> THEN d
    ELSE DictUpdate(DictSet(d, Head(e).k, Head(e).v), Tail(e))

\* dict equality in Python ignores insertion order.
DictAsMap(d) == [key \in DictKeys(d) |-> DictGet(d, key)]

(***************************************************************************)
(* Strings as token sequences.                                             *)
(***************************************************************************)
SEP == "/"

\* str.split(separator): the pieces between the separator tokens.
RECURSIVE Split(_, _)
Split(s, sep) ==
    IF \A n \in 1..Len(s) : s[n] # sep THEN <<s>>
    ELSE LET p == CHOOSE n \in 1..Len(s) :
                      s[n] = sep /\ \A m \in 1..(n - 1) : s[m] # sep
         IN  <<SubSeq(s, 1, p - 1)>> \o Split(SubSeq(s, p + 1, Len(s)), sep)

(***************************************************************************)
(* LUTField and LUT (lookup.py).  A LUT entry value is either              *)
(*   [kind |-> "field", dtype, default, vmin, vmax]   (LUTField), or       *)
(*   [kind |-> "lut", entries |-> <ordered dict>]     (nested LUT).        *)
(***************************************************************************)
IsField(x) == x.kind = "field"
IsLUT(x) == x.kind = "lut"
NewLUT == [kind |-> "lut", entries |-> <<>>]

\* LUT._flatten with the separator left out of the prefix handed to a nested LUT
RECURSIVE LUT_flatten_NoSeparator(_, _, _)
LUT_flatten_NoSeparator(entries, separator, prefix) ==
    IF entries = <<>> THEN <<>>
    ELSE LET name == Head(entries).k
             entry == Head(entries).v
             current_path == IF prefix # <<>> THEN prefix \o name ELSE name
             first == IF IsField(entry)
                      THEN <<[k |-> current_path, v |-> entry]>>
                      ELSE LUT_flatten_NoSeparator(entry.entries, separator, current_path)
         IN  DictUpdate(first, LUT_flatten_NoSeparator(Tail(entries), separator, prefix))

\* LUT._flatten(separator, prefix)
RECURSIVE LUT_flatten(_, _, _)
LUT_flatten(entries, separator, prefix) ==
    IF entries = <<>> THEN <<>>
    ELSE LET name == Head(entries).k
             entry == Head(entries).v
             current_path == IF prefix # <<>> THEN prefix \o name ELSE name
             first == IF IsField(entry)
                      THEN <<[k |-> current_path, v |-> entry]>>
                      ELSE LUT_flatten(entry.entries, separator,
                                       current_path \o <<separator>>)
         IN  DictUpdate(first, LUT_flatten(Tail(entries), separator, prefix))

\* The body of the loop of LUT._unflatten for one (path, field): walk the parts,
\* creating the missing groups, and store the field under the last part.
\* ok = FALSE models the AttributeError raised when a part names a LUTField.
RECURSIVE UnflattenInsert(_, _, _)
UnflattenInsert(entries, parts, field) ==
    IF Len(parts) = 1
    THEN [ok |-> TRUE, entries |-> DictSet(entries, parts[1], field)]
    ELSE LET part == parts[1]
             withPart == IF DictHas(entries, part) THEN entries
                         ELSE DictSet(entries, part, NewLUT)
             current == DictGet(withPart, part)
         IN  IF ~IsLUT(current) THEN [ok |-> FALSE, entries |-> <<>>]
             ELSE LET sub == UnflattenInsert(current.entries, Tail(parts), field)
                  IN  IF ~sub.ok THEN sub
                      ELSE [ok |-> TRUE,
                            entries |-> DictSet(withPart, part,
                                          [kind |-> "lut", entries |-> sub.entries])]

\* LUT._unflatten(flat_dict, separator), from the root accumulated so far.
RECURSIVE UnflattenFrom(_, _, _)
UnflattenFrom(root, flat_dict, separator) ==
    IF flat_dict = <<>> THEN [ok |-> TRUE, entries |-> root]
    ELSE LET ins == UnflattenInsert(root, Split(Head(flat_dict).k, separator),
                                    Head(flat_dict).v)
         IN  IF ~ins.ok THEN ins
             ELSE UnflattenFrom(ins.entries, Tail(flat_dict), separator)

LUT_unflatten(flat_dict, separator) == UnflattenFrom(<<>>, flat_dict, separator)

\* ut.in_interval(version, limit, IntervalType.CLOSED)
in_interval(version, field) == field.vmin <= version /\ version <= field.vmax

VERSIONS == 1..NumVersions

\* The removal loop with a half-open interval test
RemoveOutOfVersion_HalfOpen(flat, version) ==
    SelectSeq(flat, LAMBDA e : e.v.vmin <= version /\ version < e.v.vmax)

\* The removal loop of VersionedLUT.get_lut over the flattened copy.
RemoveOutOfVersion(flat, version) ==
    SelectSeq(flat, LAMBDA e : in_interval(version, e.v))

\* VersionedLUT.get_lut for a known step type whose master tree is `master`:
\* deepcopy, flatten, drop the entries out of version, unflatten.
get_lut(master, version) ==
    IF version \notin VERSIONS THEN [ok |-> FALSE, entries |-> <<>>]
    ELSE LUT_unflatten(RemoveOutOfVersion(LUT_flatten(master, SEP, <<>>), version), SEP)

(***************************************************************************)
(* Python scalars.                                                         *)
(***************************************************************************)
PyNone == [t |-> "none"]
PyS(s) == [t |-> "str", v |-> s]
PyI(n) == [t |-> "int", v |-> n]
PyB(b) == [t |-> "bool", v |-> b]

\* x == y for two scalars of this model (same type and same value)
PyEq(x, y) == x.t = y.t /\ (x.t = "none" \/ x.v = y.v)

Digit(d) ==
    CASE d = 0 -> "0" [] d = 1 -> "1" [] d = 2 -> "2" [] d = 3 -> "3" [] d = 4 -> "4"
      [] d = 5 -> "5" [] d = 6 -> "6" [] d = 7 -> "7" [] d = 8 -> "8" [] d = 9 -> "9"

\* str(n) for an int n: its decimal digits, with a leading "-" when negative
RECURSIVE Str(_)
Str(n) ==
    IF n < 0 THEN "-" \o Str(0 - n)
    ELSE IF n < 10 THEN Digit(n)
    ELSE Str(n \div 10) \o Digit(n % 10)

\* str(x)
PyStr(x) ==
    CASE x.t = "str" -> x.v
      [] x.t = "int" -> Str(x.v)
      [] x.t = "float" -> Str(x.v) \o ".0"
      [] x.t = "bool" -> IF x.v THEN "True" ELSE "False"
      [] x.t = "none" -> "None"

\* The decimal literals int() and float() are applied to in this model.
IntLiterals == 0..9

\* int(x): ok = FALSE is ValueError / TypeError
PyInt(x) ==
    CASE x.t = "int" -> [ok |-> TRUE, v |-> x]
      [] x.t = "float" -> [ok |-> TRUE, v |-> PyI(x.v)]
      [] x.t = "bool" -> [ok |-> TRUE, v |-> PyI(IF x.v THEN 1 ELSE 0)]
      [] x.t = "str" -> IF \E n \in IntLiterals : Str(n) = x.v
                        THEN [ok |-> TRUE, v |-> PyI(CHOOSE n \in IntLiterals : Str(n) = x.v)]
                        ELSE [ok |-> FALSE, v |-> x]
      [] x.t = "none" -> [ok |-> FALSE, v |-> x]

\* float(x), for the integer-valued floats of this model
PyFloat(x) ==
    CASE x.t = "int" -> [ok |-> TRUE, v |-> [t |-> "float", v |-> x.v]]
      [] x.t = "float" -> [ok |-> TRUE, v |-> x]
      [] x.t = "bool" -> [ok |-> TRUE, v |-> [t |-> "float", v |-> IF x.v THEN 1 ELSE 0]]
      [] x.t = "str" ->
            IF \E n \in IntLiterals : x.v \in {Str(n), Str(n) \o ".0"}
            THEN [ok |-> TRUE,
                  v |-> [t |-> "float",
                         v |-> CHOOSE n \in IntLiterals : x.v \in {Str(n), Str(n) \o ".0"}]]
            ELSE [ok |-> FALSE, v |-> x]
      [] x.t = "none" -> [ok |-> FALSE, v |-> x]

\* bool(x): truthiness
PyBool(x) ==
    CASE x.t = "str" -> PyB(x.v # "")
      [] x.t \in {"int", "float"} -> PyB(x.v # 0)
      [] x.t = "bool" -> x
      [] x.t = "none" -> PyB(FALSE)

\* _check_value_type(value, dtype) from line 32 on, i.e. on a value that
\* value.strip() leaves unchanged (check_value_type_chars below does the strip).
check_value_type(value, dtype) ==
    IF value.t = "none" \/ (value.t = "str" /\ value.v \in {"", "null", "None"}) THEN PyNone
    ELSE IF dtype = "None" THEN value
    ELSE IF value.t = "str" /\ value.v \in {"True", "true"} THEN PyB(TRUE)
    ELSE IF value.t = "str" /\ value.v \in {"False", "false"} THEN PyB(FALSE)
    ELSE CASE dtype = "int" -> PyInt(value).v
           [] dtype = "float" -> PyFloat(value).v
           [] dtype = "str" -> PyS(PyStr(value))
           [] dtype = "bool" -> PyBool(value)


\* A str given by its characters, for the operations that look inside it.
Whitespace == {" ", "\t", "\n"}

RECURSIVE Join(_)
Join(chars) == IF chars = <<>> THEN "" ELSE Head(chars) \o Join(Tail(chars))

RECURSIVE lstrip(_)
lstrip(chars) ==
    IF chars # <<>> /\ Head(chars) \in Whitespace THEN lstrip(Tail(chars)) ELSE chars

RECURSIVE rstrip(_)
rstrip(chars) ==
    IF chars # <<>> /\ chars[Len(chars)] \in Whitespace
    THEN rstrip(SubSeq(chars, 1, Len(chars) - 1))
    ELSE chars

\* str.strip()
strip(chars) == rstrip(lstrip(chars))

\* _check_value_type without the value.strip() of lines 29-30
check_value_type_chars_NoStrip(chars, dtype) == check_value_type(PyS(Join(chars)), dtype)

\* _check_value_type(value, dtype) for a str value given by its characters:
\* value = value.strip() (lines 29-30), then the rest of the function
check_value_type_chars(chars, dtype) == check_value_type(PyS(Join(strip(chars))), dtype)

(***************************************************************************)
(* The master LUTs the pipeline model reads (lookup.py, LUTs): for each    *)
(* step type a representative part of the table, every field valid from    *)
(* version 1.0 to max(VERSIONS).                                           *)
(***************************************************************************)
Field(dtype, default) ==
    [kind |-> "field", dtype |-> dtype, default |-> default,
     vmin |-> 1, vmax |-> NumVersions]

Group(entries) == [kind |-> "lut", entries |-> entries]

E(name, value) == [k |-> <<name>>, v |-> value]

general_lut ==
    << E("max_slice_num", Field("int", PyS(""))),
       E("sectioning_axis", Field("str", PyS("Z"))),
       E("step_count", Field("int", PyI(0))) >>

common_lut(type_default) ==
    << E("step_name", Field("str", PyS(type_default))),
       E("step_number", Field("int", PyS(""))),
       E("step_type", Field("str", PyS(type_default))),
       E("frequency", Field("int", PyI(1))) >>

image_lut ==
    << E("step_general", Group(common_lut("image"))),
       E("bit_depth", Field("str", PyS(""))) >>

fib_lut ==
    << E("step_general", Group(common_lut("fib"))),
       E("mill", Group(<< E("beam", Group(<< E("tilt_correction",
                                              Field("bool", PyB(FALSE))) >>)) >>)) >>

StepTypes == {"image", "fib"}

LUTs == [st \in StepTypes \cup {"general"} |->
            CASE st = "general" -> general_lut
              [] st = "image" -> image_lut
              [] st = "fib" -> fib_lut]

\* lut.get_lut(step_type, version): ok = FALSE is the ValueError for an unknown
\* step type or version
lut_get_lut(step_type, version) ==
    IF step_type \notin DOMAIN LUTs THEN [ok |-> FALSE, entries |-> <<>>]
    ELSE get_lut(LUTs[step_type], version)

Path2(a, b) == <<a, SEP, b>>
K_STEP_TYPE == Path2("step_general", "step_type")
K_STEP_NAME == Path2("step_general", "step_name")
K_STEP_NUMBER == Path2("step_general", "step_number")
K_STEP_COUNT == <<"step_count">>

(***************************************************************************)
(* StepConfig and PipelineConfig (pipeline_model.py).                      *)
(***************************************************************************)
NoPipeline == [version |-> 0, general |-> <<>>, steps |-> <<>>]

StepConfig(index, step_type, name, parameters) ==
    [index |-> index, step_type |-> step_type, name |-> name, parameters |-> parameters]

\* StepConfig.set_param(path, value)
set_param(step, path, value) ==
    [step EXCEPT !.parameters = DictSet(step.parameters, path, value)]

\* PipelineConfig._populate_default_parameters(step_type)
populate_default_parameters(version, step_type) ==
    LET step_lut == lut_get_lut(step_type, version)
        flat == LUT_flatten(step_lut.entries, SEP, <<>>)
    IN  IF ~step_lut.ok THEN <<>>
        ELSE [n \in 1..Len(flat) |->
                [k |-> flat[n].k,
                 v |-> PyStr(IF flat[n].v.default.t # "none" THEN flat[n].v.default
                             ELSE PyS(""))]]

\* PipelineConfig._update_step_count()
update_step_count(P) ==
    [P EXCEPT !.general = set_param(P.general, K_STEP_COUNT, Str(Len(P.steps)))]

\* PipelineConfig.create_new(version)
create_new(version) ==
    LET general_params ==
            DictSet(populate_default_parameters(version, "general"), K_STEP_COUNT, "0")
    IN  [version |-> version,
         general |-> StepConfig(0, "general", "general", general_params),
         steps |-> <<>>]

\* sum(1 for s in self.steps if s.step_type == step_type)
CountOfType(steps, step_type) ==
    Cardinality({ n \in 1..Len(steps) : steps[n].step_type = step_type })

\* PipelineConfig.add_step(step_type, name); name = "" stands for name=None
add_step(P, step_type, given_name) ==
    LET index == Len(P.steps) + 1
        name == IF given_name = ""
                THEN step_type \o "_" \o Str(CountOfType(P.steps, step_type) + 1)
                ELSE given_name
        parameters ==
            DictUpdate(populate_default_parameters(P.version, step_type),
                       << [k |-> K_STEP_TYPE, v |-> step_type],
                          [k |-> K_STEP_NAME, v |-> name],
                          [k |-> K_STEP_NUMBER, v |-> Str(index)] >>)
        step == StepConfig(index, step_type, name, parameters)
    IN  [p |-> update_step_count([P EXCEPT !.steps = Append(P.steps, step)]),
         ret |-> name, exc |-> ""]

\* the re-indexing loop of remove_step: for i, step in enumerate(self.steps, 1)
Reindex(steps) ==
    [n \in 1..Len(steps) |->
        set_param([steps[n] EXCEPT !.index = n], K_STEP_NUMBER, Str(n))]

\* remove_step that forgets the re-indexing loop
remove_step_NoReindex(P, index) ==
    IF index = 0 \/ index > Len(P.steps) THEN [p |-> P, ret |-> FALSE, exc |-> ""]
    ELSE [p |-> update_step_count(
                  [P EXCEPT !.steps = SelectSeq(P.steps, LAMBDA s : s.index # index)]),
          ret |-> TRUE, exc |-> ""]

\* PipelineConfig.remove_step(index)
remove_step(P, index) ==
    IF index = 0 \/ index > Len(P.steps) THEN [p |-> P, ret |-> FALSE, exc |-> ""]
    ELSE [p |-> update_step_count(
                  [P EXCEPT !.steps =
                      Reindex(SelectSeq(P.steps, LAMBDA s : s.index # index))]),
          ret |-> TRUE, exc |-> ""]

\* move_step that swaps the two steps without rewriting index and step_number
move_step_NoRenumber(P, index, direction) ==
    LET new_index == index + direction
    IN  IF index = 0 \/ index > Len(P.steps) THEN [p |-> P, ret |-> FALSE, exc |-> ""]
        ELSE IF new_index < 1 \/ new_index > Len(P.steps)
        THEN [p |-> P, ret |-> FALSE, exc |-> ""]
        ELSE [p |-> [P EXCEPT !.steps = [P.steps EXCEPT ![index] = P.steps[new_index],
                                                        ![new_index] = P.steps[index]]],
              ret |-> TRUE, exc |-> ""]

\* PipelineConfig.move_step(index, direction)
move_step(P, index, direction) ==
    LET new_index == index + direction
    IN  IF index = 0 \/ index > Len(P.steps) THEN [p |-> P, ret |-> FALSE, exc |-> ""]
        ELSE IF new_index < 1 \/ new_index > Len(P.steps)
        THEN [p |-> P, ret |-> FALSE, exc |-> ""]
        ELSE LET swapped == [P.steps EXCEPT ![index] = P.steps[new_index],
                                            ![new_index] = P.steps[index]]
                 renum == [swapped EXCEPT
                              ![index] = set_param([@ EXCEPT !.index = index],
                                                   K_STEP_NUMBER, Str(index)),
                              ![new_index] = set_param([@ EXCEPT !.index = new_index],
                                                       K_STEP_NUMBER, Str(new_index))]
             IN  [p |-> [P EXCEPT !.steps = renum], ret |-> TRUE, exc |-> ""]

\* seq[i] for a Python list and a 0-based, possibly negative, index i:
\* the 1-based position read, or 0 for IndexError
PyListPos(seq, i) ==
    IF 0 <= i /\ i < Len(seq) THEN i + 1
    ELSE IF i < 0 /\ 0 - i <= Len(seq) THEN Len(seq) + i + 1
    ELSE 0

\* duplicate_step that names the copy after the original: "<name>_2"
duplicate_step_NameOfOriginal(P, index) ==
    IF index = 0 \/ index > Len(P.steps) THEN [p |-> P, ret |-> "", exc |-> ""]
    ELSE LET pos == PyListPos(P.steps, index - 1)
         IN  IF pos = 0 THEN [p |-> P, ret |-> "", exc |-> "IndexError"]
             ELSE LET original == P.steps[pos]
                      new_index == Len(P.steps) + 1
                      new_name == original.name \o "_2"
                      new_step ==
                          set_param(
                            set_param([original EXCEPT !.index = new_index,
                                                       !.name = new_name],
                                      K_STEP_NAME, new_name),
                            K_STEP_NUMBER, Str(new_index))
                  IN  [p |-> update_step_count(
                                [P EXCEPT !.steps = Append(P.steps, new_step)]),
                       ret |-> new_name, exc |-> ""]

\* PipelineConfig.duplicate_step(index); ret = "" stands for None
duplicate_step(P, index) ==
    IF index = 0 \/ index > Len(P.steps) THEN [p |-> P, ret |-> "", exc |-> ""]
    ELSE LET pos == PyListPos(P.steps, index - 1)
         IN  IF pos = 0 THEN [p |-> P, ret |-> "", exc |-> "IndexError"]
             ELSE LET original == P.steps[pos]
                      new_index == Len(P.steps) + 1
                      new_name == original.step_type \o "_"
                                    \o Str(CountOfType(P.steps, original.step_type) + 1)
                      new_step ==
                          set_param(
                            set_param([original EXCEPT !.index = new_index,
                                                       !.name = new_name],
                                      K_STEP_NAME, new_name),
                            K_STEP_NUMBER, Str(new_index))
                  IN  [p |-> update_step_count(
                                [P EXCEPT !.steps = Append(P.steps, new_step)]),
                       ret |-> new_name, exc |-> ""]

\* PipelineConfig.get_step(index) for index >= 1: the position, or 0 for None
get_step_pos(P, index) == IF 1 <= index /\ index <= Len(P.steps) THEN index ELSE 0

(***************************************************************************)
(* Saving and loading (pipeline_model.py: to_dict, from_yaml, flatten_dict,*)
(* unflatten_dict).  A nested document value is                            *)
(*   [kind |-> "dict", entries |-> <ordered dict>]   or                    *)
(*   [kind |-> "val", val |-> <Python scalar>].                            *)
(***************************************************************************)
Val(x) == [kind |-> "val", val |-> x]
NewDict == [kind |-> "dict", entries |-> <<>>]

\* One iteration of unflatten_dict's loop: setdefault along parts[:-1], then
\* current[parts[-1]] = value.  ok = FALSE is the TypeError raised when a part
\* already holds a scalar.
RECURSIVE UnflattenDictInsert(_, _, _)
UnflattenDictInsert(entries, parts, value) ==
    IF Len(parts) = 1
    THEN [ok |-> TRUE, entries |-> DictSet(entries, parts[1], Val(value))]
    ELSE LET part == parts[1]
             withPart == IF DictHas(entries, part) THEN entries
                         ELSE DictSet(entries, part, NewDict)
             current == DictGet(withPart, part)
         IN  IF current.kind # "dict" THEN [ok |-> FALSE, entries |-> <<>>]
             ELSE LET sub == UnflattenDictInsert(current.entries, Tail(parts), value)
                  IN  IF ~sub.ok THEN sub
                      ELSE [ok |-> TRUE,
                            entries |-> DictSet(withPart, part,
                                          [kind |-> "dict", entries |-> sub.entries])]

RECURSIVE UnflattenDictFrom(_, _, _)
UnflattenDictFrom(result, d, sep) ==
    IF d = <<>> THEN [ok |-> TRUE, entries |-> result]
    ELSE LET ins == UnflattenDictInsert(result, Split(Head(d).k, sep), Head(d).v)
         IN  IF ~ins.ok THEN ins ELSE UnflattenDictFrom(ins.entries, Tail(d), sep)

\* unflatten_dict(d, sep)
unflatten_dict(d, sep) == UnflattenDictFrom(<<>>, d, sep)

\* flatten_dict(d, parent_key, sep)
RECURSIVE flatten_dict(_, _, _)
flatten_dict(d, parent_key, sep) ==
    IF d = <<>> THEN <<>>
    ELSE LET k == Head(d).k
             v == Head(d).v
             new_key == IF parent_key # <<>> THEN parent_key \o <<sep>> \o k ELSE k
             first == IF v.kind = "dict" THEN flatten_dict(v.entries, new_key, sep)
                      ELSE <<[k |-> new_key, v |-> v.val]>>
         IN  DictUpdate(first, flatten_dict(Tail(d), parent_key, sep))

\* _apply_type_conversion(params, step_type, version)
apply_type_conversion(params, step_type, version) ==
    LET got == lut_get_lut(step_type, version)
        step_lut == LUT_flatten(got.entries, SEP, <<>>)
    IN  IF ~got.ok THEN params
        ELSE [n \in 1..Len(params) |->
                IF DictHas(step_lut, params[n].k)
                THEN [k |-> params[n].k,
                      v |-> check_value_type(params[n].v,
                                             DictGet(step_lut, params[n].k).dtype)]
                ELSE params[n]]

\* the parameters of a StepConfig as Python str objects
AsPyStrs(parameters) ==
    [n \in 1..Len(parameters) |-> [k |-> parameters[n].k, v |-> PyS(parameters[n].v)]]

\* to_dict, the general block (lines 528-542)
general_to_dict(P) ==
    LET general_params ==
            apply_type_conversion(
                SelectSeq(AsPyStrs(P.general.parameters), LAMBDA e : e.k # <<"step_type">>),
                "general", P.version)
        general_lut_flat == LUT_flatten(lut_get_lut("general", P.version).entries, SEP, <<>>)
    IN  unflatten_dict(SelectSeq(general_params, LAMBDA e : DictHas(general_lut_flat, e.k)),
                       SEP)

\* to_dict, the body of the loop over the steps (lines 547-563)
step_to_dict(step, version) ==
    LET step_params ==
            apply_type_conversion(
                DictSet(SelectSeq(AsPyStrs(step.parameters),
                                  LAMBDA e : e.k \notin {K_STEP_NAME, K_STEP_NUMBER}),
                        K_STEP_NUMBER, PyI(step.index)),
                step.step_type, version)
        step_lut == LUT_flatten(lut_get_lut(step.step_type, version).entries, SEP, <<>>)
    IN  unflatten_dict(SelectSeq(step_params,
                          LAMBDA e : DictHas(step_lut, e.k) \/ e.k = K_STEP_NUMBER),
                       SEP)

\* steps_dict[step.name] = ... for every step, in list order
RECURSIVE steps_to_dict(_, _, _)
steps_to_dict(steps_dict, steps, version) ==
    IF steps = <<>> THEN steps_dict
    ELSE steps_to_dict(
            DictSet(steps_dict, Head(steps).name,
                    [kind |-> "dict", entries |-> step_to_dict(Head(steps), version).entries]),
            Tail(steps), version)

\* PipelineConfig.to_dict()
to_dict(P) ==
    [config_file_version |-> P.version,
     general |-> general_to_dict(P).entries,
     steps |-> steps_to_dict(<<>>, P.steps, P.version)]

\* ut.dict_to_yml followed by ut.yml_version / ut.yml_to_dict: the file holds the
\* document; a mapping keeps its key order, a scalar its type and value.
yml_roundtrip(doc) ==
    [config_file_version |-> doc.config_file_version,
     general |-> doc.general,
     steps |-> doc.steps]

\* {k: str(v) for k, v in flat.items()}
Stringified(flat) == [n \in 1..Len(flat) |-> [k |-> flat[n].k, v |-> PyStr(flat[n].v)]]

\* steps_list.sort(key=lambda s: s.index): a stable sort
RECURSIVE SortByIndex(_)
SortByIndex(steps) ==
    IF steps = <<>> THEN <<>>
    ELSE LET least == CHOOSE n \in 1..Len(steps) :
                        /\ \A m \in 1..Len(steps) : steps[n].index <= steps[m].index
                        /\ \A m \in 1..(n - 1) : steps[m].index # steps[n].index
         IN  <<steps[least]>>
               \o SortByIndex([m \in 1..(Len(steps) - 1) |->
                                 IF m < least THEN steps[m] ELSE steps[m + 1]])

\* from_yaml, the body of the loop over steps_dict (lines 476-491)
step_from_yaml(step_name, step_data) ==
    LET step_general == DictGet(step_data, <<"step_general">>).entries
        step_type == DictGet(step_general, <<"step_type">>).val
        step_number == DictGet(step_general, <<"step_number">>).val
        flat_step == DictSet(flatten_dict(step_data, <<>>, SEP), K_STEP_NAME, PyS(step_name))
    IN  StepConfig(step_number.v, PyStr(step_type), step_name, Stringified(flat_step))

\* PipelineConfig.from_yaml(path), on the document read from the file
from_yaml(db) ==
    LET general_dict == DictSet(db.general, <<"step_type">>, Val(PyS("general")))
        general == StepConfig(0, "general", "general",
                              Stringified(flatten_dict(general_dict, <<>>, SEP)))
        steps_list == [n \in 1..Len(db.steps) |->
                          step_from_yaml(db.steps[n].k, db.steps[n].v.entries)]
    IN  update_step_count([version |-> db.config_file_version,
                           general |-> general,
                           steps |-> SortByIndex(steps_list)])

\* EditorController.rename_step(index, new_name), on the pipeline
rename_step(P, index, new_name) ==
    IF index = 0 \/ get_step_pos(P, index) = 0 THEN [p |-> P, ret |-> "False", exc |-> ""]
    ELSE [p |-> [P EXCEPT !.steps[index] =
                    set_param([@ EXCEPT !.name = new_name], K_STEP_NAME, new_name)],
          ret |-> "True", exc |-> ""]

(***************************************************************************)
(* The pipeline model as a state machine.                                  *)
(***************************************************************************)
IndexArgs == (0 - MaxSteps - 1)..(MaxSteps + 1)
EditNames == {"image_1", "scan"}
EditKeys == {Path2("step_general", "frequency"), <<"bit_depth">>}
EditValues == {"", "7", "abc", "true"}

Call(op, a, b, r) == [op |-> op, a |-> a, b |-> b, ret |-> r.ret, exc |-> r.exc]
BoolStr(b) == IF b THEN "True" ELSE "False"
NoneOr(name) == IF name = "" THEN "None" ELSE name

PipeInit ==
    /\ \E version \in VERSIONS : pipeline = create_new(version)
    /\ p_last = [op |-> "create_new", a |-> 0, b |-> 0, ret |-> "", exc |-> ""]
    /\ p_edits = 0
    /\ reloaded = NoPipeline

PipeAddStep(maxSteps) ==
    /\ Len(pipeline.steps) < maxSteps
    /\ \E step_type \in StepTypes :
          LET r == add_step(pipeline, step_type, "")
          IN  /\ pipeline' = r.p
              /\ p_last' = Call("add_step", 0, 0, r)
    /\ reloaded' = NoPipeline
    /\ UNCHANGED p_edits
    /\ UNCHANGED <<lutVars, runVars, edVars, ioVars, appVars>>

PipeRemoveStep ==
    /\ \E index \in IndexArgs :
          LET r == remove_step(pipeline, index)
          IN  /\ pipeline' = r.p
              /\ p_last' = Call("remove_step", index, 0, [r EXCEPT !.ret = BoolStr(@)])
    /\ reloaded' = NoPipeline
    /\ UNCHANGED p_edits
    /\ UNCHANGED <<lutVars, runVars, edVars, ioVars, appVars>>

PipeMoveStep ==
    /\ \E index \in IndexArgs, direction \in {-1, 1} :
          LET r == move_step(pipeline, index, direction)
          IN  /\ pipeline' = r.p
              /\ p_last' = Call("move_step", index, direction, [r EXCEPT !.ret = BoolStr(@)])
    /\ reloaded' = NoPipeline
    /\ UNCHANGED p_edits
    /\ UNCHANGED <<lutVars, runVars, edVars, ioVars, appVars>>

PipeDuplicateStep(maxSteps) ==
    /\ Len(pipeline.steps) < maxSteps
    /\ \E index \in IndexArgs :
          LET r == duplicate_step(pipeline, index)
          IN  /\ pipeline' = r.p
              /\ p_last' = Call("duplicate_step", index, 0, [r EXCEPT !.ret = NoneOr(@)])
    /\ reloaded' = NoPipeline
    /\ UNCHANGED p_edits
    /\ UNCHANGED <<lutVars, runVars, edVars, ioVars, appVars>>

PipeRenameStep ==
    /\ p_edits < MaxEdits
    /\ \E index \in 0..(MaxSteps + 1), new_name \in EditNames :
          LET r == rename_step(pipeline, index, new_name)
          IN  /\ pipeline' = r.p
              /\ p_last' = Call("rename_step", index, 0, r)
    /\ p_edits' = p_edits + 1
    /\ reloaded' = NoPipeline
    /\ UNCHANGED <<lutVars, runVars, edVars, ioVars, appVars>>

\* EditorController.update_parameter(path, value) with step `index` selected
PipeSetParam ==
    /\ p_edits < MaxEdits
    /\ \E index \in 1..Len(pipeline.steps), path \in EditKeys, value \in EditValues :
          /\ pipeline' = [pipeline EXCEPT !.steps[index] = set_param(@, path, value)]
          /\ p_last' = [op |-> "set_param", a |-> index, b |-> 0, ret |-> "None", exc |-> ""]
    /\ p_edits' = p_edits + 1
    /\ reloaded' = NoPipeline
    /\ UNCHANGED <<lutVars, runVars, edVars, ioVars, appVars>>

\* to_yaml(path) followed by from_yaml(path)
PipeSaveLoad ==
    /\ reloaded = NoPipeline
    /\ reloaded' = from_yaml(yml_roundtrip(to_dict(pipeline)))
    /\ p_last' = [op |-> "save_load", a |-> 0, b |-> 0, ret |-> "None", exc |-> ""]
    /\ UNCHANGED <<pipeline, p_edits>>
    /\ UNCHANGED <<lutVars, runVars, edVars, ioVars, appVars>>

PipeNext ==
    \/ PipeAddStep(MaxSteps) \/ PipeRemoveStep \/ PipeMoveStep
    \/ PipeDuplicateStep(MaxSteps)

PipeIONext ==
    \/ PipeAddStep(MaxIOSteps) \/ PipeRemoveStep \/ PipeMoveStep
    \/ PipeDuplicateStep(MaxIOSteps)
    \/ PipeRenameStep \/ PipeSetParam \/ PipeSaveLoad


(***************************************************************************)
(* Loading a document (PipelineConfig.from_yaml).  The file is one written *)
(* by to_yaml for a new pipeline, to which step entries are then added by  *)
(* hand: a mapping keeps its keys distinct, the step_number of an entry is *)
(* whatever was typed.                                                     *)
(***************************************************************************)
NoDocument == [config_file_version |-> 0, general |-> <<>>, steps |-> <<>>]
NoConversion == [applied |-> FALSE]
DocNames == {"a", "b", "c"}
DocStepNumbers == 1..MaxStepNumber

\* the entry of one step in the "steps" mapping, as from_yaml reads it
DocStep(step_type, step_number) ==
    [kind |-> "dict",
     entries |-> << [k |-> <<"step_general">>,
                     v |-> [kind |-> "dict",
                            entries |-> << [k |-> <<"step_type">>, v |-> Val(PyS(step_type))],
                                           [k |-> <<"step_number">>,
                                            v |-> Val(PyI(step_number))] >>]] >>]

LoadInit ==
    /\ \E version \in VERSIONS : document = yml_roundtrip(to_dict(create_new(version)))
    /\ conv = NoConversion
    /\ pipeline = NoPipeline
    /\ p_last = [op |-> "none", a |-> 0, b |-> 0, ret |-> "", exc |-> ""]
    /\ p_edits = 0
    /\ reloaded = NoPipeline

\* a step entry is appended to the "steps" mapping of the file
DocWriteStep ==
    /\ Len(document.steps) < MaxDocSteps
    /\ \E step_name \in DocNames \ DictKeys(document.steps),
          step_type \in StepTypes, step_number \in DocStepNumbers :
          document' = [document EXCEPT
                          !.steps = DictSet(@, step_name, DocStep(step_type, step_number))]
    /\ p_last' = [op |-> "write", a |-> 0, b |-> 0, ret |-> "None", exc |-> ""]
    /\ reloaded' = NoPipeline
    /\ UNCHANGED <<pipeline, p_edits, conv>>
    /\ UNCHANGED <<lutVars, runVars, edVars, appVars>>

\* PipelineConfig.from_yaml(path) on the file
DocLoad ==
    /\ reloaded = NoPipeline
    /\ reloaded' = from_yaml(document)
    /\ p_last' = [op |-> "from_yaml", a |-> 0, b |-> 0, ret |-> "None", exc |-> ""]
    /\ UNCHANGED <<pipeline, p_edits, document, conv>>
    /\ UNCHANGED <<lutVars, runVars, edVars, appVars>>

LoadNext == DocWriteStep \/ DocLoad

(***************************************************************************)
(* _check_value_type applied to one value.                                 *)
(***************************************************************************)
Dtypes == {"None", "int", "float", "str", "bool"}

ConvWords ==
    { <<>>, <<"n", "u", "l", "l">>, <<"N", "o", "n", "e">>,
      <<"T", "r", "u", "e">>, <<"t", "r", "u", "e">>,
      <<"F", "a", "l", "s", "e">>, <<"f", "a", "l", "s", "e">>,
      <<"a", "b", "c">>, <<"a", " ", "b">>, <<"5">>, <<"5", ".", "0">>, <<"0">> }

\* sequences of at most MaxPad whitespace characters
Pads == UNION { [1..n -> Whitespace] : n \in 0..MaxPad }

ConvInit ==
    /\ \E left \in Pads, word \in ConvWords, right \in Pads, dtype \in Dtypes :
          conv = [applied |-> FALSE, value |-> left \o word \o right,
                  dtype |-> dtype, result |-> PyNone]
    /\ document = NoDocument

ConvApply ==
    /\ ~conv.applied
    /\ conv' = [conv EXCEPT !.applied = TRUE,
                            !.result = check_value_type_chars(conv.value, conv.dtype)]
    /\ UNCHANGED document
    /\ UNCHANGED <<lutVars, pipeVars, runVars, edVars, appVars>>

ConvNext == ConvApply

(***************************************************************************)
(* The experiment controller (runner/experiment_controller.py).            *)
(*                                                                         *)
(* The UI thread calls start_experiment and the request_stop_* methods;    *)
(* each start launches a worker thread running _run_experiment_loop.  The  *)
(* worker is modelled statement by statement wherever it reads or writes   *)
(* the shared ExperimentState or calls a device; wk[r].pc names the line   *)
(* it is about to execute.  The collaborators that are not part of the     *)
(* controller (workflow.perform_step, stage.stop, retract_all_devices,     *)
(* _log_error's file I/O, validate_config) return or raise                 *)
(* nondeterministically.                                                   *)
(***************************************************************************)
Runs == 1..MaxWorkers

\* ExperimentState(...) with the dataclass defaults.  current_step holds the
\* 1-based number of the step whose name the code stores, 0 for the default "-".
ExperimentState(total_slices, total_steps, current_slice, is_running) ==
    [current_slice |-> current_slice, current_step |-> 0,
     total_slices |-> total_slices, total_steps |-> total_steps,
     is_running |-> is_running,
     should_stop_step |-> FALSE, should_stop_slice |-> FALSE, should_stop_now |-> FALSE,
     progress_percent |-> 0]

\* A worker thread that has not been created.  i = 0 and j = -1 stand for the
\* loop variables being unbound; jit is the position of the inner range iterator.
NoWorker ==
    [pc |-> "none", starting_slice |-> 0, starting_step_idx |-> 0,
     ending_slice |-> 0, num_steps |-> 0,
     i |-> 0, j |-> -1, jit |-> 0, success |-> TRUE, exc |-> "",
     final_slice |-> 0, final_step |-> 0, is_step_completed |-> FALSE]

NoHistory ==
    [calls |-> 0,                 \* perform_step calls started
     last |-> <<0, 0>>,           \* (slice, 1-based step) of the last one
     last_result |-> "none",      \* "running" | "ok" | "exc" | "ki"
     retracts |-> 0,              \* retract_all_devices calls
     calls_at_retract |-> 0,
     cleared |-> FALSE,           \* cleanup has set is_running to False
     retracts_at_clear |-> 0,
     terminal |-> "none",         \* "completed" | "stopped"
     pos |-> <<0, 0>>,            \* (slice, 0-based step) given to experiment_stopped
     retracts_at_terminal |-> 0,
     flags_at_exit |-> <<FALSE, FALSE, FALSE>>,  \* step, slice, now: read by line 410
     hard |-> FALSE,              \* request_stop_now was called during the run
     requested |-> FALSE,         \* a stop request set a flag during the run
     step_req |-> 0,              \* calls when request_stop_after_step came during a step
     slice_req |-> <<0, 0>>,      \* the step during which request_stop_after_slice came
     escaped |-> ""]              \* the exception that ended the thread, if any

(***************************************************************************)
(* Python float arithmetic (IEEE 754 binary64, round to nearest, ties to   *)
(* even), as far as _update_progress uses it.  A float is a record         *)
(* [m, e] with the value 1.m * 2^e: m holds the 52 bits of the significand *)
(* below its leading one as four limbs of 13 bits, most significant first. *)
(***************************************************************************)
RECURSIVE Pow2(_)
Pow2(n) == IF n = 0 THEN 1 ELSE 2 * Pow2(n - 1)

Limb == Pow2(13)

\* the position of the highest set bit of n >= 1
RECURSIVE Log2(_)
Log2(n) == IF n < 2 THEN 0 ELSE 1 + Log2(n \div 2)

\* the number of doublings that bring c/t into [1, 2), for 1 <= c <= t
RECURSIVE Doublings(_, _)
Doublings(c, t) == IF c >= t THEN 0 ELSE 1 + Doublings(2 * c, t)

\* long division: the next n limbs of r/t for r < t, and the remainder left
RECURSIVE DivLimbs(_, _, _)
DivLimbs(r, t, n) ==
    IF n = 0 THEN [limbs |-> <<>>, rem |-> r]
    ELSE LET rest == DivLimbs((r * Limb) % t, t, n - 1)
         IN  [limbs |-> <<(r * Limb) \div t>> \o rest.limbs, rem |-> rest.rem]

\* limbs * k + carry for a small k: the limbs of the product and the carry out
RECURSIVE MulLimbs(_, _, _)
MulLimbs(limbs, k, carry) ==
    IF limbs = <<>> THEN [limbs |-> <<>>, carry |-> carry]
    ELSE LET n == Len(limbs)
             d == limbs[n] * k + carry
             rest == MulLimbs(SubSeq(limbs, 1, n - 1), k, d \div Limb)
         IN  [limbs |-> rest.limbs \o <<d % Limb>>, carry |-> rest.carry]

\* round to nearest, ties to even: half is TRUE when what lies below the kept
\* bits is exactly one half of the last place, above when it is more.  A carry
\* out of the limbs leaves 1.0 with the exponent one higher.
Round(limbs, half, above) ==
    LET up == MulLimbs(limbs, 1, 1)
    IN  IF above \/ (half /\ limbs[Len(limbs)] % 2 = 1)
        THEN [m |-> up.limbs, carry |-> up.carry]
        ELSE [m |-> limbs, carry |-> 0]

\* c / t for integers 1 <= c <= t: the correctly rounded quotient
py_truediv(c, t) ==
    LET k == Doublings(c, t)
        d == DivLimbs(c * Pow2(k) - t, t, 4)
        r == Round(d.limbs, 2 * d.rem = t, 2 * d.rem > t)
    IN  [m |-> r.m, e |-> r.carry - k]

\* x * 100 for a float x: the exact product 1.m * 100 has the integer part
\* top in 100..199; it is shifted down to a leading one and rounded
py_mul_100(x) ==
    LET p == MulLimbs(x.m, 100, 0)
        top == 100 + p.carry
        drop == Log2(top)
        all == <<top>> \o p.limbs
        shifted == [i \in 1..Len(x.m) |->
                       (all[i] % Pow2(drop)) * (Limb \div Pow2(drop))
                       + all[i + 1] \div Pow2(drop)]
        below == all[Len(all)] % Pow2(drop)
        r == Round(shifted, 2 * below = Pow2(drop), 2 * below > Pow2(drop))
    IN  [m |-> r.m, e |-> x.e + drop + r.carry]

\* int(x) for a float 0 < x < 2^13: the fraction is cut off
py_int(x) ==
    IF x.e < 0 THEN 0 ELSE Pow2(x.e) + x.m[1] \div (Limb \div Pow2(x.e))

NoProgress == [applied |-> FALSE]

\* floor(completed * 100 / total_work) in exact arithmetic
floor_percent(slice_num, step_num, total_slices, total_steps) ==
    (((slice_num - 1) * total_steps + step_num) * 100) \div (total_slices * total_steps)

\* _update_progress, lines 359-361: int((completed_steps / total_work) * 100)
progress_percent(slice_num, step_num, total_slices, total_steps) ==
    LET completed_steps == (slice_num - 1) * total_steps + step_num
        total_work == total_slices * total_steps
    IN  py_int(py_mul_100(py_truediv(completed_steps, total_work)))

\* _update_progress called once, after step step_num of slice slice_num of an
\* experiment of total_slices slices of total_steps steps
ProgInit ==
    \E total_slices \in 1..MaxProgSlices, total_steps \in 1..MaxProgSteps :
      \E slice_num \in 1..total_slices, step_num \in 1..total_steps :
        prog = [applied |-> FALSE, slice_num |-> slice_num, step_num |-> step_num,
                total_slices |-> total_slices, total_steps |-> total_steps,
                progress_percent |-> 0]

UpdateProgress ==
    /\ ~prog.applied
    /\ prog' = [prog EXCEPT !.applied = TRUE,
                            !.progress_percent =
                                progress_percent(prog.slice_num, prog.step_num,
                                                 prog.total_slices, prog.total_steps)]
    /\ UNCHANGED <<recent_configs, max_recent_files, added>>
    /\ UNCHANGED <<lutVars, pipeVars, runVars, edVars, ioVars>>

ProgNext == UpdateProgress

\* lines 268-272: the stop conditions tested after the inner loop
StopAfterSlice_StepOrNowOnly(st) == st.should_stop_step \/ st.should_stop_now

StopAfterSlice(st) == st.should_stop_step \/ st.should_stop_slice \/ st.should_stop_now

Alive(r) == wk[r].pc \notin {"none", "dead"}

\* the worker r may execute its next statement: no asynchronous exception is
\* waiting to be raised in it
Runnable(r) == Alive(r) /\ ~kbi[r]

\* what no statement of the worker thread touches
RunOther == UNCHANGED <<cfg, nruns, ui, lutVars, pipeVars, edVars, ioVars, appVars>>

\* line 233: for i in range(starting_slice, ending_slice + 1)
WForSlice(r) ==
    /\ Runnable(r) /\ wk[r].pc = "for_i"
    /\ LET next == IF wk[r].i = 0 THEN wk[r].starting_slice ELSE wk[r].i + 1
       IN  IF next <= wk[r].ending_slice
           THEN wk' = [wk EXCEPT ![r].i = next, ![r].pc = "slice_top"]
           ELSE wk' = [wk EXCEPT ![r].pc = "finally"]
    /\ UNCHANGED <<state, kbi, hist>> /\ RunOther

\* lines 234-240: the hard-stop check at the top of a slice, current_slice = i
WSliceTop(r) ==
    /\ Runnable(r) /\ wk[r].pc = "slice_top"
    /\ IF state.should_stop_now
       THEN /\ wk' = [wk EXCEPT ![r].pc = "except_ki"]
            /\ UNCHANGED state
       ELSE /\ state' = [state EXCEPT !.current_slice = wk[r].i]
            /\ wk' = [wk EXCEPT ![r].jit = 0, ![r].pc = "for_j"]
    /\ UNCHANGED <<kbi, hist>> /\ RunOther

\* a skip that applies to every slice, not only to the starting one
SkipsStep_EverySlice(w, j) == j < w.starting_step_idx

\* line 244: the steps before the starting step of the starting slice are skipped
SkipsStep(w, j) == w.i = w.starting_slice /\ j < w.starting_step_idx

\* lines 242-255: the next j, the skip of the steps before the starting step,
\* the hard-stop check, current_step = step_names[j], and the call of
\* _execute_step, which enters workflow.perform_step
WForStep(r) ==
    /\ Runnable(r) /\ wk[r].pc = "for_j"
    /\ IF wk[r].jit >= wk[r].num_steps
       THEN /\ wk' = [wk EXCEPT ![r].pc = "slice_end"]
            /\ UNCHANGED <<state, hist>>
       ELSE LET j == wk[r].jit
                w1 == [wk[r] EXCEPT !.j = j, !.jit = j + 1]
            IN  IF SkipsStep(wk[r], j)
                THEN /\ wk' = [wk EXCEPT ![r] = w1]
                     /\ UNCHANGED <<state, hist>>
                ELSE IF state.should_stop_now
                THEN /\ wk' = [wk EXCEPT ![r] = [w1 EXCEPT !.pc = "except_ki"]]
                     /\ UNCHANGED <<state, hist>>
                ELSE /\ state' = [state EXCEPT !.current_step = j + 1]
                     /\ wk' = [wk EXCEPT ![r] = [w1 EXCEPT !.pc = "perform_step"]]
                     /\ hist' = [hist EXCEPT ![r].calls = @ + 1,
                                             ![r].last = <<wk[r].i, j + 1>>,
                                             ![r].last_result = "running"]
    /\ UNCHANGED kbi /\ RunOther

\* line 304-305: workflow.perform_step returns
WPerformStepReturns(r) ==
    /\ Alive(r) /\ wk[r].pc = "perform_step"
    /\ wk' = [wk EXCEPT ![r].success = TRUE, ![r].pc = "after_step"]
    /\ hist' = [hist EXCEPT ![r].last_result = "ok"]
    /\ UNCHANGED <<state, kbi>> /\ RunOther

\* line 309: workflow.perform_step raises an Exception
WPerformStepRaises(r) ==
    /\ Alive(r) /\ wk[r].pc = "perform_step"
    /\ wk' = [wk EXCEPT ![r].pc = "log_error"]
    /\ hist' = [hist EXCEPT ![r].last_result = "exc"]
    /\ UNCHANGED <<state, kbi>> /\ RunOther

\* line 313: _log_error writes the error file, or its file I/O raises OSError,
\* which leaves _execute_step and the loop (only KeyboardInterrupt is caught there)
WLogError(r) ==
    /\ Runnable(r) /\ wk[r].pc = "log_error"
    /\ \/ wk' = [wk EXCEPT ![r].pc = "stop_stage"]
       \/ wk' = [wk EXCEPT ![r].exc = "OSError", ![r].pc = "finally"]
    /\ UNCHANGED <<state, kbi, hist>> /\ RunOther

\* _try_stop_stage (lines 323-327) then return False: stage.stop raises
\* SystemError (caught) or returns, or raises another exception, which escapes
WTryStopStage(r) ==
    /\ Alive(r) /\ wk[r].pc = "stop_stage"
    /\ \/ wk' = [wk EXCEPT ![r].success = FALSE, ![r].pc = "after_step"]
       \/ wk' = [wk EXCEPT ![r].exc = "RuntimeError", ![r].pc = "finally"]
    /\ UNCHANGED <<state, kbi, hist>> /\ RunOther

\* lines 257-262: a failed or hard-stopped step sets should_stop_now and breaks;
\* otherwise _update_progress
WAfterStep(r) ==
    /\ Runnable(r) /\ wk[r].pc = "after_step"
    /\ IF ~wk[r].success \/ state.should_stop_now
       THEN /\ state' = [state EXCEPT !.should_stop_now = TRUE]
            /\ wk' = [wk EXCEPT ![r].pc = "slice_end"]
       ELSE /\ state' = [state EXCEPT !.progress_percent =
                            progress_percent(wk[r].i, wk[r].j + 1,
                                             wk[r].ending_slice, wk[r].num_steps)]
            /\ wk' = [wk EXCEPT ![r].pc = "check_stop_step"]
    /\ UNCHANGED <<kbi, hist>> /\ RunOther

\* lines 264-265
WCheckStopStep(r) ==
    /\ Runnable(r) /\ wk[r].pc = "check_stop_step"
    /\ wk' = [wk EXCEPT ![r].pc = IF state.should_stop_step THEN "slice_end" ELSE "for_j"]
    /\ UNCHANGED <<state, kbi, hist>> /\ RunOther

\* lines 268-278: the stop conditions after the inner loop, else the timing stats
WSliceEnd(r) ==
    /\ Runnable(r) /\ wk[r].pc = "slice_end"
    /\ wk' = [wk EXCEPT ![r].pc =
                IF StopAfterSlice(state) THEN "finally" ELSE "for_i"]
    /\ UNCHANGED <<state, kbi, hist>> /\ RunOther

\* lines 280-281: except KeyboardInterrupt: notify experiment_interrupted
WExceptInterrupt(r) ==
    /\ Runnable(r) /\ wk[r].pc = "except_ki"
    /\ wk' = [wk EXCEPT ![r].pc = "finally"]
    /\ UNCHANGED <<state, kbi, hist>> /\ RunOther

\* lines 282-285: the finally clause evaluates the arguments of
\* _cleanup_experiment; with i unbound that raises UnboundLocalError, which
\* ends the thread before the cleanup is entered
WFinally(r) ==
    /\ Runnable(r) /\ wk[r].pc = "finally"
    /\ IF wk[r].i = 0
       THEN /\ wk' = [wk EXCEPT ![r].pc = "dead"]
            /\ hist' = [hist EXCEPT ![r].escaped = "UnboundLocalError"]
       ELSE /\ wk' = [wk EXCEPT ![r].final_slice = wk[r].i,
                                ![r].final_step = IF wk[r].j >= 0 THEN wk[r].j ELSE 0,
                                ![r].pc = "retract"]
            /\ hist' = [hist EXCEPT ![r].flags_at_exit =
                           <<state.should_stop_step, state.should_stop_slice,
                             state.should_stop_now>>]
    /\ UNCHANGED <<state, kbi>> /\ RunOther

\* retract_all_devices is not called
WRetract_NotCalled(r) ==
    /\ Alive(r) /\ wk[r].pc = "retract"
    /\ wk' = [wk EXCEPT ![r].pc = "clear_state"]
    /\ UNCHANGED <<state, kbi, hist>> /\ RunOther

\* lines 400-407: retract_all_devices returns, or raises an Exception that is caught
WRetract(r) ==
    /\ Alive(r) /\ wk[r].pc = "retract"
    /\ wk' = [wk EXCEPT ![r].pc = "clear_state"]
    /\ hist' = [hist EXCEPT ![r].retracts = @ + 1, ![r].calls_at_retract = hist[r].calls]
    /\ UNCHANGED <<state, kbi>> /\ RunOther

\* lines 410-413: is_step_completed, then is_running is cleared.  From here on
\* start_experiment is accepted again, although this thread has not finished.
WClearState(r) ==
    /\ Runnable(r) /\ wk[r].pc = "clear_state"
    /\ wk' = [wk EXCEPT ![r].is_step_completed = ~state.should_stop_now,
                        ![r].pc = "clear_flags"]
    /\ state' = [state EXCEPT !.is_running = FALSE]
    /\ hist' = [hist EXCEPT ![r].cleared = TRUE, ![r].retracts_at_clear = hist[r].retracts]
    /\ UNCHANGED kbi /\ RunOther

\* lines 414-416: the three stop flags of whatever object self.state is now
WClearFlags(r) ==
    /\ Runnable(r) /\ wk[r].pc = "clear_flags"
    /\ wk' = [wk EXCEPT ![r].pc = "notify"]
    /\ state' = [state EXCEPT !.should_stop_step = FALSE,
                              !.should_stop_slice = FALSE, !.should_stop_now = FALSE]
    /\ UNCHANGED <<kbi, hist>> /\ RunOther

\* a resume position that always stays in the slice of the last step
ResumePosition_SameSlice(final_slice, final_step, total_steps, is_step_completed) ==
    IF ~is_step_completed THEN <<final_slice, final_step>>
    ELSE <<final_slice, final_step + 1>>

\* the resume position computed by lines 423-428
ResumePosition(final_slice, final_step, total_steps, is_step_completed) ==
    IF ~is_step_completed THEN <<final_slice, final_step>>
    ELSE IF final_step + 1 < total_steps THEN <<final_slice, final_step + 1>>
    ELSE <<final_slice + 1, 0>>

\* line 419: the test that chooses experiment_completed
IsCompletion(final_slice, final_step, total_slices, total_steps) ==
    final_slice = total_slices /\ final_step = total_steps - 1

\* lines 419-431: experiment_completed or experiment_stopped; then the thread
\* ends, with the exception that was propagating through the finally clause
WNotifyEnd(r) ==
    /\ Runnable(r) /\ wk[r].pc = "notify"
    /\ wk' = [wk EXCEPT ![r].pc = "dead"]
    /\ hist' = [hist EXCEPT
          ![r].terminal =
              IF IsCompletion(wk[r].final_slice, wk[r].final_step,
                              state.total_slices, wk[r].num_steps)
              THEN "completed" ELSE "stopped",
          ![r].pos =
              IF IsCompletion(wk[r].final_slice, wk[r].final_step,
                              state.total_slices, wk[r].num_steps)
              THEN <<0, 0>>
              ELSE ResumePosition(wk[r].final_slice, wk[r].final_step,
                                  wk[r].num_steps, wk[r].is_step_completed),
          ![r].retracts_at_terminal = hist[r].retracts,
          ![r].escaped = wk[r].exc]
    /\ UNCHANGED <<state, kbi>> /\ RunOther

\* The KeyboardInterrupt set by StoppableThread.raise_exception is raised in the
\* worker at the statement it is at.
WInterrupted(r) ==
    /\ Alive(r) /\ kbi[r]
    /\ kbi' = [kbi EXCEPT ![r] = FALSE]
    /\ CASE wk[r].pc = "perform_step" ->
              \* _execute_step, line 306: except KeyboardInterrupt
              /\ wk' = [wk EXCEPT ![r].pc = "stop_stage"]
              /\ hist' = [hist EXCEPT ![r].last_result = "ki"]
         [] wk[r].pc \in {"for_i", "slice_top", "for_j", "log_error", "stop_stage",
                          "after_step", "check_stop_step", "slice_end"} ->
              \* line 280: except KeyboardInterrupt
              /\ wk' = [wk EXCEPT ![r].pc = "except_ki"]
              /\ UNCHANGED hist
         [] wk[r].pc = "except_ki" ->
              \* raised inside the handler: the finally clause runs, then it escapes
              /\ wk' = [wk EXCEPT ![r].exc = "KeyboardInterrupt", ![r].pc = "finally"]
              /\ UNCHANGED hist
         [] wk[r].pc \in {"finally", "retract", "clear_state", "clear_flags", "notify"} ->
              \* raised inside the finally clause: the rest of the cleanup is skipped
              /\ wk' = [wk EXCEPT ![r].pc = "dead"]
              /\ hist' = [hist EXCEPT ![r].escaped = "KeyboardInterrupt"]
    /\ UNCHANGED state /\ RunOther

Worker(r) ==
    \/ WForSlice(r) \/ WSliceTop(r) \/ WForStep(r)
    \/ WPerformStepReturns(r) \/ WPerformStepRaises(r) \/ WLogError(r) \/ WTryStopStage(r)
    \/ WAfterStep(r) \/ WCheckStopStep(r) \/ WSliceEnd(r)
    \/ WExceptInterrupt(r) \/ WFinally(r) \/ WRetract(r) \/ WClearState(r) \/ WClearFlags(r)
    \/ WNotifyEnd(r)
    \/ WInterrupted(r)


\* start_experiment up to its two early returns and the state reset: returns the
\* new self.state, the return value so far and the event fired.  valid is the
\* outcome of validate_config.
start_experiment_ResetBeforeChecks(st, valid, c, starting_slice) ==
    [state |-> ExperimentState(c.slices, c.steps, starting_slice, ~(st.is_running \/ ~valid)),
     ret |-> ~(st.is_running \/ ~valid),
     event |-> IF st.is_running THEN "error"
               ELSE IF ~valid THEN "validation_failed" ELSE "experiment_started"]

start_experiment(st, valid, c, starting_slice) ==
    IF st.is_running THEN [state |-> st, ret |-> FALSE, event |-> "error"]
    ELSE IF ~valid THEN [state |-> st, ret |-> FALSE, event |-> "validation_failed"]
    ELSE [state |-> ExperimentState(c.slices, c.steps, starting_slice, TRUE),
          ret |-> TRUE, event |-> "experiment_started"]

\* the UI thread after a call: the method called ("start" or "stop"), and for
\* start_experiment its return value and the event it fired
UICall(op, ret, event) == [pc |-> "idle", op |-> op, ret |-> ret, event |-> event]

\* start_experiment refused: already running, or validation failed
StartRefused ==
    /\ ui.pc = "idle"
    /\ \E valid \in BOOLEAN, starting_slice \in 1..(cfg.slices + 1) :
         LET res == start_experiment(state, valid, cfg, starting_slice)
         IN  /\ ~res.ret
             /\ state' = res.state
             /\ ui' = UICall("start", FALSE, res.event)
    /\ UNCHANGED <<cfg, nruns, wk, kbi, hist>>
    /\ UNCHANGED <<lutVars, pipeVars, edVars, ioVars, appVars>>

\* start_experiment accepted, lines 153-183, with starting_step None (index 0) or
\* the name of a step; the new thread's first statements
\* (lines 228-230) read total_slices and total_steps from the state just built
StartLaunchedWithin(maxRuns) ==
    /\ ui.pc = "idle" /\ nruns < maxRuns
    /\ \E starting_slice \in 1..(cfg.slices + 1), starting_step_idx \in 0..(cfg.steps - 1) :
         LET res == start_experiment(state, TRUE, cfg, starting_slice)
             r == nruns + 1
         IN  /\ res.ret
             /\ state' = res.state
             /\ nruns' = r
             /\ wk' = [wk EXCEPT ![r] =
                          [NoWorker EXCEPT !.pc = "for_i",
                                           !.starting_slice = starting_slice,
                                           !.starting_step_idx = starting_step_idx,
                                           !.ending_slice = res.state.total_slices,
                                           !.num_steps = res.state.total_steps]]
             /\ ui' = UICall("start", TRUE, res.event)
    /\ UNCHANGED <<cfg, kbi, hist>>
    /\ UNCHANGED <<lutVars, pipeVars, edVars, ioVars, appVars>>

StartLaunched == StartLaunchedWithin(MaxRuns)

\* start_experiment with a starting_step that is not a step name: line 165
\* raises ValueError after the state was replaced; no thread is started.  The
\* call is explored as the first start of a behaviour.
StartBadStep ==
    /\ ui.pc = "idle" /\ nruns = 0
    /\ \E starting_slice \in 1..(cfg.slices + 1) :
         LET res == start_experiment(state, TRUE, cfg, starting_slice)
         IN  /\ res.ret
             /\ state' = res.state
             /\ ui' = UICall("start", FALSE, "ValueError")
    /\ UNCHANGED <<cfg, nruns, wk, kbi, hist>>
    /\ UNCHANGED <<lutVars, pipeVars, edVars, ioVars, appVars>>

\* the thread a stop request made now would reach while it executes a step
InStep(r) == r = nruns /\ r > 0 /\ wk[r].pc = "perform_step"

\* request_stop_after_step, lines 435-439
RequestStopAfterStep ==
    /\ ui.pc = "idle"
    /\ IF state.is_running
       THEN /\ state' = [state EXCEPT !.should_stop_step = TRUE]
            /\ ui' = UICall("stop", FALSE, "")
            /\ hist' = [r \in Runs |->
                          IF r = nruns
                          THEN [hist[r] EXCEPT
                                  !.requested = TRUE,
                                  !.step_req = IF InStep(r) /\ hist[r].step_req = 0
                                               THEN hist[r].calls ELSE hist[r].step_req]
                          ELSE hist[r]]
       ELSE /\ ui' = UICall("stop", FALSE, "")
            /\ UNCHANGED <<state, hist>>
    /\ UNCHANGED <<cfg, nruns, wk, kbi>>
    /\ UNCHANGED <<lutVars, pipeVars, edVars, ioVars, appVars>>

\* request_stop_after_slice, lines 444-448
RequestStopAfterSlice ==
    /\ ui.pc = "idle"
    /\ IF state.is_running
       THEN /\ state' = [state EXCEPT !.should_stop_slice = TRUE]
            /\ ui' = UICall("stop", FALSE, "")
            /\ hist' = [r \in Runs |->
                          IF r = nruns
                          THEN [hist[r] EXCEPT
                                  !.requested = TRUE,
                                  !.slice_req = IF InStep(r) /\ hist[r].slice_req = <<0, 0>>
                                                THEN hist[r].last ELSE hist[r].slice_req]
                          ELSE hist[r]]
       ELSE /\ ui' = UICall("stop", FALSE, "")
            /\ UNCHANGED <<state, hist>>
    /\ UNCHANGED <<cfg, nruns, wk, kbi>>
    /\ UNCHANGED <<lutVars, pipeVars, edVars, ioVars, appVars>>

\* request_stop_now, lines 453-464: the flag, the notification, the escape key
RequestStopNow ==
    /\ ui.pc = "idle"
    /\ IF state.is_running
       THEN /\ state' = [state EXCEPT !.should_stop_now = TRUE]
            /\ ui' = [UICall("stop", FALSE, "") EXCEPT !.pc = "raise_exception"]
            /\ hist' = [r \in Runs |->
                          IF r = nruns
                          THEN [hist[r] EXCEPT !.hard = TRUE, !.requested = TRUE]
                          ELSE hist[r]]
       ELSE /\ ui' = UICall("stop", FALSE, "")
            /\ UNCHANGED <<state, hist>>
    /\ UNCHANGED <<cfg, nruns, wk, kbi>>
    /\ UNCHANGED <<lutVars, pipeVars, edVars, ioVars, appVars>>

\* request_stop_now, lines 467-471: if the thread is alive, raise_exception sets
\* a KeyboardInterrupt to be raised in it (threading_utils.py, lines 91-118)
StopNowRaise ==
    /\ ui.pc = "raise_exception"
    /\ kbi' = [r \in Runs |-> IF r = nruns /\ Alive(r) THEN TRUE ELSE kbi[r]]
    /\ ui' = [ui EXCEPT !.pc = "idle"]
    /\ UNCHANGED <<cfg, state, nruns, wk, hist>>
    /\ UNCHANGED <<lutVars, pipeVars, edVars, ioVars, appVars>>

RunInit ==
    /\ cfg \in [slices : 1..MaxSlices, steps : 1..MaxStepsPerSlice]
    /\ state = ExperimentState(0, 0, 1, FALSE)
    /\ nruns = 0
    /\ wk = [r \in Runs |-> NoWorker]
    /\ kbi = [r \in Runs |-> FALSE]
    /\ ui = [pc |-> "idle", op |-> "", ret |-> FALSE, event |-> ""]
    /\ hist = [r \in Runs |-> NoHistory]

RunNext ==
    \/ StartRefused \/ StartLaunched \/ StartBadStep
    \/ RequestStopAfterStep \/ RequestStopAfterSlice \/ RequestStopNow \/ StopNowRaise
    \/ \E r \in Runs : Worker(r)

\* Runs started one after the other on configurations of one step per slice:
\* start_experiment is accepted again as soon as is_running is False.  The
\* first run is left to itself; the stop requests explored are those made once
\* a later run has been started.
RelaunchInit ==
    /\ cfg \in [slices : 1..MaxRelaunchSlices, steps : {1}]
    /\ state = ExperimentState(0, 0, 1, FALSE)
    /\ nruns = 0
    /\ wk = [r \in Runs |-> NoWorker]
    /\ kbi = [r \in Runs |-> FALSE]
    /\ ui = [pc |-> "idle", op |-> "", ret |-> FALSE, event |-> ""]
    /\ hist = [r \in Runs |-> NoHistory]

RelaunchStopAfterStep == nruns > 1 /\ RequestStopAfterStep

RelaunchStopAfterSlice == nruns > 1 /\ RequestStopAfterSlice

RelaunchStopNow == nruns > 1 /\ RequestStopNow

RelaunchNext ==
    \/ StartLaunchedWithin(MaxWorkers)
    \/ RelaunchStopAfterStep \/ RelaunchStopAfterSlice \/ RelaunchStopNow \/ StopNowRaise
    \/ \E r \in Runs : Worker(r)

\* the controller before any call: what the other specifications keep fixed
RunIdle ==
    /\ cfg = [slices |-> 1, steps |-> 1]
    /\ state = ExperimentState(0, 0, 1, FALSE)
    /\ nruns = 0
    /\ wk = [r \in Runs |-> NoWorker]
    /\ kbi = [r \in Runs |-> FALSE]
    /\ ui = [pc |-> "idle", op |-> "", ret |-> FALSE, event |-> ""]
    /\ hist = [r \in Runs |-> NoHistory]


(***************************************************************************)
(* Application settings (common/config_manager.py): the list of recently   *)
(* opened configuration files.  A Path is the sequence of its components,  *)
(* an absolute one starting with the root "/".                             *)
(***************************************************************************)
IsAbsolute(path) == path # <<>> /\ path[1] = "/"

\* Path.absolute(): a relative path is appended to the current directory;
\* nothing is normalised or resolved
Path_absolute(path, cwd) == IF IsAbsolute(path) THEN path ELSE cwd \o path

\* str(path) of an absolute path: the components after the root, each after a "/"
RECURSIVE JoinComponents(_)
JoinComponents(parts) ==
    IF parts = <<>> THEN "" ELSE "/" \o Head(parts) \o JoinComponents(Tail(parts))

Path_str(path) == IF Len(path) = 1 THEN "/" ELSE JoinComponents(Tail(path))

\* list.remove(x): the first occurrence goes
ListRemove(list, x) ==
    LET first == CHOOSE n \in 1..Len(list) :
                    list[n] = x /\ \A m \in 1..(n - 1) : list[m] # x
    IN  [n \in 1..(Len(list) - 1) |-> IF n < first THEN list[n] ELSE list[n + 1]]

ListContains(list, x) == \E n \in 1..Len(list) : list[n] = x

\* list[:stop]
SliceTo(list, stop) ==
    LET n == IF stop >= 0 THEN (IF stop < Len(list) THEN stop ELSE Len(list))
             ELSE (IF Len(list) + stop > 0 THEN Len(list) + stop ELSE 0)
    IN  SubSeq(list, 1, n)

\* add_recent_config without the removal of an entry already in the list
add_recent_config_NoRemove(recent, max_files, config_str) ==
    SliceTo(<<config_str>> \o recent, max_files)

\* AppConfig.add_recent_config, lines 133-140, on config_str
add_recent_config(recent, max_files, config_str) ==
    LET removed == IF ListContains(recent, config_str)
                   THEN ListRemove(recent, config_str) ELSE recent
    IN  SliceTo(<<config_str>> \o removed, max_files)

RecentPaths ==
    { <<"a.cfg">>, <<"b.cfg">>, <<"/", "tmp", "a.cfg">>, <<"/", "tmp", "c.cfg">> }

WorkingDirectories == { <<"/", "tmp">>, <<"/", "home">> }

\* AppConfig(data_dir, log_dir, max_recent_files=...): the list starts empty
RecentInit ==
    /\ max_recent_files \in 0..MaxRecent
    /\ recent_configs = <<>>
    /\ added = <<>>
    /\ prog = NoProgress

\* add_recent_config(config_path), called in some working directory
AddRecentConfig ==
    /\ Len(added) < MaxAdds
    /\ \E config_path \in RecentPaths, cwd \in WorkingDirectories :
         LET config_str == Path_str(Path_absolute(config_path, cwd))
         IN  /\ recent_configs' =
                    add_recent_config(recent_configs, max_recent_files, config_str)
             /\ added' = Append(added, config_str)
    /\ UNCHANGED <<prog, max_recent_files>>
    /\ UNCHANGED <<lutVars, pipeVars, runVars, edVars, ioVars>>

RecentNext == AddRecentConfig

(***************************************************************************)
(* The configuration editor (config_ui/editor_controller.py).  The editor  *)
(* owns the pipeline and the selection; every operation ends by notifying  *)
(* the UI through _notify.  What a registered callback does when called is *)
(* the UI's business: it returns, or it raises an Exception.               *)
(***************************************************************************)
NoCall == [op |-> "none"]
CallbackOutcomes == {"none", "returns", "raises"}   \* "none": no callback registered

\* _notify without the try / except around the callback
EditorController_notify_NoTry(event, outcome) ==
    [called |-> outcome # "none",
     exc |-> IF outcome = "raises" THEN "Exception" ELSE ""]

\* EditorController._notify(event, ...): exc is the exception that leaves it
EditorController_notify(event, outcome) ==
    IF outcome = "none" THEN [called |-> FALSE, exc |-> ""]
    ELSE IF outcome = "raises" THEN [called |-> TRUE, exc |-> ""]   \* caught, printed
    ELSE [called |-> TRUE, exc |-> ""]

\* ExperimentController._notify(event, ...)
ExperimentController_notify(event, outcome) ==
    IF outcome = "none" THEN [called |-> FALSE, exc |-> ""]
    ELSE IF outcome = "raises" THEN [called |-> TRUE, exc |-> ""]   \* caught, printed
    ELSE [called |-> TRUE, exc |-> ""]

\* the _notify calls an operation makes one after the other; a call that lets
\* an exception out ends the operation.  notified counts the _notify calls that
\* returned, raised is the position of the first callback that raised (0: none).
RECURSIVE NotifyEach(_, _, _)
NotifyEach(controller, events, outcomes) ==
    IF events = <<>> THEN [exc |-> "", notified |-> 0, raised |-> 0]
    ELSE LET n == IF controller = "editor"
                  THEN EditorController_notify(Head(events), Head(outcomes))
                  ELSE ExperimentController_notify(Head(events), Head(outcomes))
         IN  IF n.exc # ""
             THEN [exc |-> n.exc, notified |-> 0, raised |-> 1]
             ELSE LET rest == NotifyEach(controller, Tail(events), Tail(outcomes))
                  IN  [exc |-> rest.exc, notified |-> 1 + rest.notified,
                       raised |-> IF Head(outcomes) = "raises" THEN 1
                                  ELSE IF rest.raised = 0 THEN 0
                                  ELSE 1 + rest.raised]

\* PipelineConfig.get_step(index); NoStep stands for None
NoStep == StepConfig(-1, "None", "None", <<>>)
get_step(P, index) ==
    IF index = 0 THEN P.general
    ELSE IF 1 <= index /\ index <= Len(P.steps) THEN P.steps[index]
    ELSE NoStep

\* EditorController.get_current_step()
get_current_step(P, cur) == IF P = NoPipeline THEN NoStep ELSE get_step(P, cur)

\* What an operation did before its notifications: the pipeline and selection
\* it leaves, its return value, the exception it raised, the events it fires.
Did(P, cur, ret, exc, events) ==
    [p |-> P, cur |-> cur, ret |-> ret, exc |-> exc, events |-> events]

\* EditorController.create_new_pipeline(version)
ed_create_new_pipeline(version) ==
    Did(create_new(version), 0, "None", "", <<"pipeline_created">>)

\* EditorController.add_step(step_type)
ed_add_step(P, cur, step_type) ==
    IF P = NoPipeline THEN Did(P, cur, "None", "ValueError", <<>>)
    ELSE LET r == add_step(P, step_type, "")
         IN  Did(r.p, cur, r.ret, "", <<"step_added">>)

\* EditorController.remove_step(index)
ed_remove_step(P, cur, index) ==
    IF P = NoPipeline THEN Did(P, cur, "False", "", <<>>)
    ELSE LET r == remove_step(P, index)
             new_cur == IF cur = index THEN (IF index - 1 > 0 THEN index - 1 ELSE 0)
                        ELSE IF cur > index THEN cur - 1
                        ELSE cur
         IN  IF r.ret THEN Did(r.p, new_cur, "True", "", <<"pipeline_changed", "step_removed">>)
             ELSE Did(r.p, cur, "False", "", <<>>)

\* EditorController.move_step(index, direction)
ed_move_step(P, cur, index, direction) ==
    IF P = NoPipeline THEN Did(P, cur, "False", "", <<>>)
    ELSE LET r == move_step(P, index, direction)
             diff == IF cur >= index THEN cur - index ELSE index - cur
             new_cur == IF cur = index THEN cur + direction
                        ELSE IF diff = 1 THEN cur - direction
                        ELSE cur
         IN  IF r.ret THEN Did(r.p, new_cur, "True", "", <<"pipeline_changed", "step_moved">>)
             ELSE Did(r.p, cur, "False", "", <<>>)

\* EditorController.duplicate_step(index)
ed_duplicate_step(P, cur, index) ==
    IF P = NoPipeline THEN Did(P, cur, "None", "", <<>>)
    ELSE LET r == duplicate_step(P, index)
         IN  IF r.exc # "" THEN Did(P, cur, "None", r.exc, <<>>)
             ELSE IF r.ret # "" THEN Did(r.p, cur, r.ret, "", <<"pipeline_changed", "step_added">>)
             ELSE Did(r.p, cur, "None", "", <<>>)

\* EditorController.select_step(index)
ed_select_step(P, cur, index) ==
    IF P = NoPipeline THEN Did(P, cur, "None", "", <<>>)
    ELSE IF get_step(P, index) # NoStep THEN Did(P, index, "None", "", <<"step_selected">>)
    ELSE Did(P, cur, "None", "", <<>>)

\* EditorController.update_parameter(path, value): set_param on the selected step
ed_update_parameter(P, cur, path, value) ==
    IF get_current_step(P, cur) = NoStep THEN Did(P, cur, "None", "", <<>>)
    ELSE Did(IF cur = 0 THEN [P EXCEPT !.general = set_param(@, path, value)]
             ELSE [P EXCEPT !.steps[cur] = set_param(@, path, value)],
             cur, "None", "", <<"parameter_changed">>)

\* EditorController.rename_step(index, new_name)
ed_rename_step(P, cur, index, new_name) ==
    IF P = NoPipeline THEN Did(P, cur, "False", "", <<>>)
    ELSE LET r == rename_step(P, index, new_name)
         IN  IF r.ret = "True"
             THEN Did(r.p, cur, "True", "", <<"pipeline_changed", "step_renamed">>)
             ELSE Did(r.p, cur, "False", "", <<>>)


\* ConfigValidator.set_version(version): the version the validator uses from
\* then on.  validator.py defines no such method; this is what its callers
\* (lines 42 and 393) and its test expect of it.
validator_set_version(version) == version

\* self.pipeline.set_version(version): PipelineConfig has no attribute
\* set_version, so the call raises AttributeError and changes nothing
pipeline_set_version(P, version) == [p |-> P, exc |-> "AttributeError"]

\* EditorController.set_version(version)
ed_set_version(P, version) ==
    LET r == IF P # NoPipeline THEN pipeline_set_version(P, version)
             ELSE [p |-> P, exc |-> ""]
    IN  [ed_version |-> version,
         validator_version |-> validator_set_version(version),
         p |-> r.p, exc |-> r.exc,
         events |-> IF P # NoPipeline /\ r.exc = "" THEN <<"version_changed">> ELSE <<>>]

EdIndexArgs == (0 - MaxEdSteps - 1)..(MaxEdSteps + 1)
EdKeys == {K_STEP_NAME, <<"bit_depth">>}
EdValues == {"scan", "7"}

\* the state after EditorController.__init__(version)
EdInit ==
    /\ pipeline = NoPipeline
    /\ p_last = [op |-> "none", a |-> 0, b |-> 0, ret |-> "", exc |-> ""]
    /\ p_edits = 0
    /\ reloaded = NoPipeline
    /\ current_step_index = 0
    /\ \E version \in VERSIONS :
          /\ ed_version = version
          /\ validator_version = validator_set_version(version)
    /\ ed_last = NoCall

\* the callback outcomes met by an operation that fires these events
OutcomesFor(events) == [1..Len(events) -> CallbackOutcomes]

\* an operation's effect, then its notifications, for each outcome of the
\* callbacks; ed_last records the call and how it ended
EdApply(op, a, b, did) ==
    \E outcomes \in OutcomesFor(did.events) :
        LET n == NotifyEach("editor", did.events, outcomes)
        IN  /\ pipeline' = did.p
            /\ current_step_index' = did.cur
            /\ ed_last' = [op |-> op, a |-> a, b |-> b,
                           ret |-> IF did.exc # "" \/ n.exc # "" THEN "" ELSE did.ret,
                           exc |-> IF did.exc # "" THEN did.exc ELSE n.exc,
                           fired |-> Len(did.events),
                           notified |-> n.notified, raised |-> n.raised]

EdOther == UNCHANGED <<p_last, reloaded, lutVars, runVars, ioVars, appVars>>

EdCreateNewPipeline ==
    /\ EdApply("create_new_pipeline", 0, 0, ed_create_new_pipeline(ed_version))
    /\ UNCHANGED <<ed_version, validator_version, p_edits>>
    /\ EdOther

EdAddStep ==
    /\ Len(pipeline.steps) < MaxEdSteps
    /\ \E step_type \in StepTypes:
          EdApply("add_step", 0, 0,
                  ed_add_step(pipeline, current_step_index, step_type))
    /\ UNCHANGED <<ed_version, validator_version, p_edits>>
    /\ EdOther

EdRemoveStep ==
    /\ \E index \in EdIndexArgs:
          EdApply("remove_step", index, 0,
                  ed_remove_step(pipeline, current_step_index, index))
    /\ UNCHANGED <<ed_version, validator_version, p_edits>>
    /\ EdOther

EdMoveStep ==
    /\ \E index \in EdIndexArgs, direction \in {-1, 1}:
          EdApply("move_step", index, direction,
                  ed_move_step(pipeline, current_step_index, index, direction))
    /\ UNCHANGED <<ed_version, validator_version, p_edits>>
    /\ EdOther

EdDuplicateStep ==
    /\ Len(pipeline.steps) < MaxEdSteps
    /\ \E index \in EdIndexArgs:
          EdApply("duplicate_step", index, 0,
                  ed_duplicate_step(pipeline, current_step_index, index))
    /\ UNCHANGED <<ed_version, validator_version, p_edits>>
    /\ EdOther

EdSelectStep ==
    /\ \E index \in EdIndexArgs:
          EdApply("select_step", index, 0,
                  ed_select_step(pipeline, current_step_index, index))
    /\ UNCHANGED <<ed_version, validator_version, p_edits>>
    /\ EdOther

EdUpdateParameter ==
    /\ p_edits < MaxEdits
    /\ \E path \in EdKeys, value \in EdValues:
          EdApply("update_parameter", 0, 0,
                  ed_update_parameter(pipeline, current_step_index, path, value))
    /\ p_edits' = p_edits + 1
    /\ UNCHANGED <<ed_version, validator_version>>
    /\ EdOther

EdRenameStep ==
    /\ p_edits < MaxEdits
    /\ \E index \in 0..(MaxEdSteps + 1), new_name \in EditNames:
          EdApply("rename_step", index, 0,
                  ed_rename_step(pipeline, current_step_index, index, new_name))
    /\ p_edits' = p_edits + 1
    /\ UNCHANGED <<ed_version, validator_version>>
    /\ EdOther

EdSetVersion ==
    /\ \E version \in VERSIONS:
          LET r == ed_set_version(pipeline, version)
          IN  /\ ed_version' = r.ed_version
              /\ validator_version' = r.validator_version
              /\ EdApply("set_version", version, 0,
                         Did(r.p, current_step_index, "None", r.exc, r.events))
    /\ UNCHANGED p_edits
    /\ EdOther

\* ExperimentController.start_experiment() with a configuration that fails
\* validation, no run in progress: lines 142-150
XStartInvalid ==
    /\ ui.pc = "idle" /\ ~state.is_running
    /\ LET res == start_experiment(state, FALSE, cfg, 1)
       IN  \E outcomes \in OutcomesFor(<<res.event>>) :
              LET n == NotifyEach("experiment", <<res.event>>, outcomes)
              IN  /\ state' = res.state
                  /\ ui' = UICall("start", res.ret, res.event)
                  /\ ed_last' = [op |-> "start_experiment", a |-> 1, b |-> 0,
                                 ret |-> IF n.exc # "" THEN "" ELSE BoolStr(res.ret),
                                 exc |-> n.exc, fired |-> 1,
                                 notified |-> n.notified, raised |-> n.raised]
    /\ UNCHANGED <<cfg, nruns, wk, kbi, hist>>
    /\ UNCHANGED <<current_step_index, ed_version, validator_version>>
    /\ UNCHANGED <<lutVars, pipeVars, ioVars, appVars>>

\* the structural operations
EdNext ==
    \/ EdCreateNewPipeline \/ EdAddStep \/ EdRemoveStep \/ EdMoveStep
    \/ EdDuplicateStep \/ EdSelectStep \/ XStartInvalid

\* the operations of the parameter pane
EdParamNext ==
    \/ EdCreateNewPipeline \/ EdAddStep \/ EdSelectStep
    \/ EdUpdateParameter \/ EdRenameStep \/ EdSetVersion

(***************************************************************************)
(* The LUT engine as a state machine: a tree is built with add_entry, a    *)
(* deep copy of it is flattened and unflattened, and get_lut is called on  *)
(* it as the master LUT of a step type.                                    *)
(***************************************************************************)
LUTKeys == { <<"a">>, <<"b">>, <<"a", SEP, "b">> }

LUTField(vmin, vmax) ==
    [kind |-> "field", dtype |-> "int", default |-> [t |-> "str", v |-> ""],
     vmin |-> vmin, vmax |-> vmax]

FieldChoices == { LUTField(1, 1), LUTField(2, NumVersions) }

RECURSIVE NodeCount(_)
NodeCount(entries) ==
    IF entries = <<>> THEN 0
    ELSE 1 + (IF IsLUT(Head(entries).v) THEN NodeCount(Head(entries).v.entries) ELSE 0)
           + NodeCount(Tail(entries))

\* lut[g1][g2]...[gn].add_entry(name, value): LUT.__getitem__ then LUT.add_entry.
\* ok = FALSE when a key of the group path is missing or names a field.
RECURSIVE add_entry_at(_, _, _, _)
add_entry_at(entries, groupPath, name, value) ==
    IF groupPath = <<>> THEN [ok |-> TRUE, entries |-> DictSet(entries, name, value)]
    ELSE IF ~DictHas(entries, Head(groupPath)) THEN [ok |-> FALSE, entries |-> entries]
    ELSE LET g == DictGet(entries, Head(groupPath))
         IN  IF ~IsLUT(g) THEN [ok |-> FALSE, entries |-> entries]
             ELSE LET sub == add_entry_at(g.entries, Tail(groupPath), name, value)
                  IN  [ok |-> sub.ok,
                       entries |-> DictSet(entries, Head(groupPath),
                                     [kind |-> "lut", entries |-> sub.entries])]

GroupPaths == { <<>> } \cup { <<k>> : k \in LUTKeys }
                 \cup { <<k1, k2>> : k1 \in LUTKeys, k2 \in LUTKeys }

LutInit ==
    /\ lut_master = <<>>
    /\ lut_work = <<>>
    /\ lut_phase = "build"
    /\ lut_result = [ok |-> TRUE, entries |-> <<>>]
    /\ lut_version = 0

LutAddEntry ==
    /\ lut_phase = "build"
    /\ lut_version = 0
    /\ NodeCount(lut_master) < MaxNodes
    /\ \E gp \in GroupPaths, name \in LUTKeys, value \in FieldChoices \cup {NewLUT} :
          LET r == add_entry_at(lut_master, gp, name, value)
          IN  /\ r.ok
              /\ NodeCount(r.entries) > NodeCount(lut_master)
              /\ lut_master' = r.entries
              /\ lut_work' = r.entries
    /\ UNCHANGED <<lut_phase, lut_result, lut_version>>
    /\ UNCHANGED <<pipeVars, runVars, edVars, ioVars, appVars>>

\* LUT.flatten() on the copy
LutFlatten ==
    /\ lut_phase = "build"
    /\ lut_version = 0
    /\ lut_work' = LUT_flatten(lut_work, SEP, <<>>)
    /\ lut_phase' = "flat"
    /\ UNCHANGED <<lut_master, lut_result, lut_version>>
    /\ UNCHANGED <<pipeVars, runVars, edVars, ioVars, appVars>>

\* LUT.unflatten() on the copy
LutUnflatten ==
    /\ lut_phase = "flat"
    /\ LET r == LUT_unflatten(lut_work, SEP)
       IN  /\ lut_work' = r.entries
           /\ lut_phase' = IF r.ok THEN "unflat" ELSE "error"
    /\ UNCHANGED <<lut_master, lut_result, lut_version>>
    /\ UNCHANGED <<pipeVars, runVars, edVars, ioVars, appVars>>

\* VersionedLUT.get_lut(step_type, version) with lut_master as LUTs[step_type]
LutGetLut ==
    /\ lut_phase = "build"
    /\ \E version \in 1..(NumVersions + 1) :
          /\ lut_result' = get_lut(lut_master, version)
          /\ lut_version' = version
    /\ UNCHANGED <<lut_master, lut_work, lut_phase>>
    /\ UNCHANGED <<pipeVars, runVars, edVars, ioVars, appVars>>

LutNext == LutAddEntry \/ LutFlatten \/ LutUnflatten \/ LutGetLut

(***************************************************************************)
(* Tree predicates used by the LUT properties.                             *)
(***************************************************************************)
\* The tree as an unordered nested map (Python dict equality ignores order).
RECURSIVE Canon(_)
Canon(entries) ==
    [key \in DictKeys(entries) |->
        LET x == DictGet(entries, key)
        IN  IF IsField(x) THEN x ELSE [kind |-> "lut", entries |-> Canon(x.entries)]]

RECURSIVE NoEmptyGroup(_)
NoEmptyGroup(entries) ==
    \A n \in 1..Len(entries) :
        IsLUT(entries[n].v) =>
            /\ entries[n].v.entries # <<>>
            /\ NoEmptyGroup(entries[n].v.entries)

RECURSIVE NoSepInKeys(_)
NoSepInKeys(entries) ==
    \A n \in 1..Len(entries) :
        /\ \A m \in 1..Len(entries[n].k) : entries[n].k[m] # SEP
        /\ IsLUT(entries[n].v) => NoSepInKeys(entries[n].v.entries)

RECURSIVE HasNestedField(_, _)
HasNestedField(entries, depth) ==
    \E n \in 1..Len(entries) :
        \/ depth >= 1 /\ IsField(entries[n].v)
        \/ IsLUT(entries[n].v) /\ HasNestedField(entries[n].v.entries, depth + 1)

\* The expected result of get_lut, stated directly on the tree: keep a field iff
\* its closed interval contains the version, keep a group iff something below
\* it is kept.
RECURSIVE Pruned(_, _)
Pruned(entries, version) ==
    LET keep(x) == IF IsField(x) THEN x.vmin <= version /\ version <= x.vmax
                   ELSE DOMAIN Pruned(x.entries, version) # {}
        kept == { key \in DictKeys(entries) : keep(DictGet(entries, key)) }
    IN  [key \in kept |->
            LET x == DictGet(entries, key)
            IN  IF IsField(x) THEN x
                ELSE [kind |-> "lut", entries |-> Pruned(x.entries, version)]]

\* C10 (as stated): for every LUT tree, empty groups included, flatten()
\* followed by unflatten() yields a tree structurally equal to the original.
C10_RoundTripAnyTree ==
    lut_phase \in {"unflat", "error"} =>
        /\ lut_phase = "unflat"
        /\ Canon(lut_work) = Canon(lut_master)

\* C10 (amended): for every LUT tree without an empty group and without the
\* separator inside a key, flatten() followed by unflatten() succeeds and
\* yields the same groups at the same places and the same field at every path.
C10_RoundTripNonEmptyGroups ==
    (lut_phase \in {"unflat", "error"} /\ NoEmptyGroup(lut_master) /\ NoSepInKeys(lut_master)) =>
        /\ lut_phase = "unflat"
        /\ Canon(lut_work) = Canon(lut_master)

C10_Witness ==
    /\ lut_phase = "unflat"
    /\ NoEmptyGroup(lut_master)
    /\ NoSepInKeys(lut_master)
    /\ HasNestedField(lut_master, 0)
    /\ NodeCount(lut_master) = MaxNodes

\* C9: for a master LUT (keys free of the separator) and every known version,
\* get_lut returns exactly the fields whose closed interval contains the
\* version, each at its original nested path, and a group iff a field below it
\* survives.
C9_GetLutExact ==
    (lut_version \in VERSIONS /\ NoSepInKeys(lut_master)) =>
        /\ lut_result.ok
        /\ Canon(lut_result.entries) = Pruned(lut_master, lut_version)

\* a get_lut call that kept a group with one surviving field and dropped a
\* non-empty group nested in it, all of whose fields are out of version
C9_Witness ==
    /\ lut_version \in VERSIONS
    /\ NoSepInKeys(lut_master)
    /\ lut_result.ok
    /\ \E n \in 1..Len(lut_master) :
          LET g == lut_master[n]
          IN  /\ IsLUT(g.v)
              /\ DictHas(lut_result.entries, g.k)
              /\ IsLUT(DictGet(lut_result.entries, g.k))
              /\ \E m \in 1..Len(g.v.entries) :
                    /\ IsLUT(g.v.entries[m].v)
                    /\ \E q \in 1..Len(g.v.entries[m].v.entries) :
                          IsField(g.v.entries[m].v.entries[q].v)
                    /\ ~DictHas(DictGet(lut_result.entries, g.k).entries,
                                g.v.entries[m].k)

(***************************************************************************)
(* Properties of the pipeline model.                                       *)
(***************************************************************************)
\* C1: after create_new and any sequence of add_step, remove_step, move_step
\* and duplicate_step with arbitrary integer indices, step_count equals
\* str(len(steps)) and the step at 1-based position k has index k and
\* step_general/step_number equal to str(k).
C1_CountAndIndices ==
    /\ DictGet(pipeline.general.parameters, K_STEP_COUNT) = Str(Len(pipeline.steps))
    /\ \A k \in 1..Len(pipeline.steps) :
          /\ pipeline.steps[k].index = k
          /\ DictGet(pipeline.steps[k].parameters, K_STEP_NUMBER) = Str(k)

\* a duplicate_step with a negative index that did append a step
C1_Witness ==
    /\ p_last.op = "duplicate_step"
    /\ p_last.a < 0
    /\ p_last.ret # "None"
    /\ Len(pipeline.steps) = MaxSteps

\* The LUT keys of a step type at a version, flattened
LutKeysOf(step_type, version) ==
    DictKeys(LUT_flatten(lut_get_lut(step_type, version).entries, SEP, <<>>))

Coerced(step, key, version) ==
    check_value_type(PyS(DictGet(step.parameters, key)),
                     DictGet(LUT_flatten(lut_get_lut(step.step_type, version).entries,
                                         SEP, <<>>), key).dtype)

\* C8: to_yaml followed by from_yaml yields a pipeline with the same version,
\* the same number of steps, the same step names and types in the same order,
\* and equal type-coerced values for every parameter key of the current LUT.
C8_SaveLoadRoundTrip ==
    p_last.op = "save_load" =>
        /\ reloaded.version = pipeline.version
        /\ Len(reloaded.steps) = Len(pipeline.steps)
        /\ \A k \in 1..Len(pipeline.steps) :
              /\ reloaded.steps[k].name = pipeline.steps[k].name
              /\ reloaded.steps[k].step_type = pipeline.steps[k].step_type
              /\ \A key \in LutKeysOf(pipeline.steps[k].step_type, pipeline.version) :
                    DictHas(pipeline.steps[k].parameters, key) =>
                        /\ DictHas(reloaded.steps[k].parameters, key)
                        /\ PyEq(Coerced(reloaded.steps[k], key, pipeline.version),
                                Coerced(pipeline.steps[k], key, pipeline.version))

\* The step names of a pipeline, in order
StepNames(P) == [k \in 1..Len(P.steps) |-> P.steps[k].name]

\* C13: under add_step without a name, duplicate_step, remove_step and
\* move_step, no two steps of the pipeline ever carry the same name.
C13_AutoNamesUnique ==
    \A j, k \in 1..Len(pipeline.steps) :
        j # k => pipeline.steps[j].name # pipeline.steps[k].name

\* steps without the one at 1-based position index
WithoutPos(steps, index) ==
    [n \in 1..(Len(steps) - 1) |-> IF n < index THEN steps[n] ELSE steps[n + 1]]

\* C14: remove_step(index) returns False and leaves the pipeline unchanged when
\* index is 0, negative or greater than len(steps); otherwise it returns True,
\* exactly the step at position index is gone and the steps that followed it
\* are re-indexed.
C14_RemoveStepContract ==
    [][ p_last'.op = "remove_step" =>
          LET index == p_last'.a
          IN  IF index < 1 \/ index > Len(pipeline.steps)
              THEN p_last'.ret = "False" /\ pipeline' = pipeline
              ELSE /\ p_last'.ret = "True"
                   /\ pipeline'.steps = Reindex(WithoutPos(pipeline.steps, index))
                   /\ pipeline'.version = pipeline.version ]_vars

\* parameters without the step_name and step_number entries
SansNameNumber(parameters) ==
    DictRemove(DictRemove(parameters, K_STEP_NAME), K_STEP_NUMBER)

\* C15: duplicate_step(index) returns None, raises nothing and leaves the
\* pipeline unchanged when index is 0, negative or greater than len(steps);
\* otherwise it appends exactly one copy of the step at index (same type, same
\* parameters but step_name and step_number) and leaves the others unchanged.
C15_DuplicateStepContract ==
    [][ p_last'.op = "duplicate_step" =>
          LET index == p_last'.a
              n == Len(pipeline.steps)
          IN  /\ p_last'.exc = ""
              /\ IF index < 1 \/ index > n
                 THEN p_last'.ret = "None" /\ pipeline' = pipeline
                 ELSE /\ p_last'.ret # "None"
                      /\ Len(pipeline'.steps) = n + 1
                      /\ SubSeq(pipeline'.steps, 1, n) = pipeline.steps
                      /\ pipeline'.steps[n + 1].step_type = pipeline.steps[index].step_type
                      /\ SansNameNumber(pipeline'.steps[n + 1].parameters)
                           = SansNameNumber(pipeline.steps[index].parameters) ]_vars

\* C16: move_step(index, direction) with direction -1 or +1 returns False and
\* changes nothing when index or index + direction lies outside 1..len(steps);
\* otherwise the two steps trade places, only their index and step_number are
\* rewritten, and every other step is untouched.
C16_MoveStepContract ==
    [][ p_last'.op = "move_step" =>
          LET index == p_last'.a
              new_index == p_last'.a + p_last'.b
              n == Len(pipeline.steps)
              Placed(step, k) == set_param([step EXCEPT !.index = k], K_STEP_NUMBER, Str(k))
          IN  IF index < 1 \/ index > n \/ new_index < 1 \/ new_index > n
              THEN p_last'.ret = "False" /\ pipeline' = pipeline
              ELSE /\ p_last'.ret = "True"
                   /\ Len(pipeline'.steps) = n
                   /\ pipeline'.steps[index] = Placed(pipeline.steps[new_index], index)
                   /\ pipeline'.steps[new_index] = Placed(pipeline.steps[index], new_index)
                   /\ \A k \in (1..n) \ {index, new_index} :
                         pipeline'.steps[k] = pipeline.steps[k]
                   /\ pipeline'.general = pipeline.general
                   /\ pipeline'.version = pipeline.version ]_vars

\* the middle step of three steps of both types was moved down
C16_Witness ==
    /\ p_last.op = "move_step" /\ p_last.ret = "True"
    /\ p_last.a = 2 /\ p_last.b = 1
    /\ Len(pipeline.steps) = 3
    /\ pipeline.steps[3].step_type # pipeline.steps[2].step_type
    /\ pipeline.steps[3].name # pipeline.steps[2].name

\* the step_number declared in the document for the step named name
Declared(name) ==
    DictGet(DictGet(DictGet(document.steps, name).entries, <<"step_general">>).entries,
            <<"step_number">>).val.v

\* The pipeline after create_new at the first version, two add_step("image")
\* and duplicate_step(1): three image steps, the first two auto-named, the
\* third the copy just appended.
ExampleDuplicated ==
    /\ pipeline.version = 1
    /\ Len(pipeline.steps) = 3
    /\ \A k \in 1..3 : pipeline.steps[k].step_type = "image"
    /\ pipeline.steps[1].name = "image_1"
    /\ pipeline.steps[2].name = "image_2"
    /\ SansNameNumber(pipeline.steps[3].parameters)
          = SansNameNumber(pipeline.steps[1].parameters)
    /\ p_last.op = "duplicate_step" /\ p_last.a = 1 /\ p_last.ret # "None"

StepIndices(P) == [k \in 1..Len(P.steps) |-> P.steps[k].index]

\* C23 as stated: creating a pipeline at version 1.0, adding two 'image'
\* steps, duplicating step 1 and then removing step 2 leaves the step list
\* [image_1, image_1_2] with indices [1, 2] and step_count '2'.
C23_ExampleAsStated ==
    [][ (ExampleDuplicated /\ p_last'.op = "remove_step" /\ p_last'.a = 2)
        => /\ StepNames(pipeline') = <<"image_1", "image_1_2">>
           /\ StepIndices(pipeline') = <<1, 2>>
           /\ DictGet(pipeline'.general.parameters, K_STEP_COUNT) = "2" ]_vars

\* C23 amended: the same calls leave the step list [image_1, image_3] with
\* indices [1, 2] and step_count '2'.
C23_ExampleAutoNamed ==
    [][ (ExampleDuplicated /\ p_last'.op = "remove_step" /\ p_last'.a = 2)
        => /\ StepNames(pipeline') = <<"image_1", "image_3">>
           /\ StepIndices(pipeline') = <<1, 2>>
           /\ DictGet(pipeline'.general.parameters, K_STEP_COUNT) = "2" ]_vars

\* remove_step(2) has returned True on a pipeline of three image steps at the
\* first version and left two, the second being a copy of the first
C23_Witness ==
    /\ p_last.op = "remove_step" /\ p_last.a = 2 /\ p_last.ret = "True"
    /\ pipeline.version = 1
    /\ Len(pipeline.steps) = 2
    /\ pipeline.steps[1].name = "image_1"
    /\ pipeline.steps[2].name # "image_2"
    /\ SansNameNumber(pipeline.steps[2].parameters)
          = SansNameNumber(pipeline.steps[1].parameters)

\* C17: the steps loaded by from_yaml are in the order of their declared
\* step_number, step_count equals len(steps), and the step at 1-based position
\* k has index k, whatever the declared numbers (gaps, duplicates, not
\* starting at 1).
C17_LoadedInvariants ==
    p_last.op = "from_yaml" =>
        /\ Len(reloaded.steps) = Len(document.steps)
        /\ \A j, k \in 1..Len(reloaded.steps) :
              j < k => Declared(reloaded.steps[j].name) <= Declared(reloaded.steps[k].name)
        /\ DictGet(reloaded.general.parameters, K_STEP_COUNT) = Str(Len(reloaded.steps))
        /\ \A k \in 1..Len(reloaded.steps) : reloaded.steps[k].index = k

\* dtype(value) for a str value given by its characters: int() and float()
\* ignore surrounding whitespace, str() returns the value, bool() its
\* truthiness, and calling None raises TypeError.  ok = FALSE: it raised.
DtypeCall(dtype, chars) ==
    CASE dtype = "int" -> PyInt(PyS(Join(strip(chars))))
      [] dtype = "float" -> PyFloat(PyS(Join(strip(chars))))
      [] dtype = "str" -> [ok |-> TRUE, v |-> PyS(Join(chars))]
      [] dtype = "bool" -> [ok |-> TRUE, v |-> PyB(chars # <<>>)]
      [] dtype = "None" -> [ok |-> FALSE, v |-> PyNone]

C11_SelectionInRange ==
    [][ pipeline' # NoPipeline =>
          /\ current_step_index' \in 0..Len(pipeline'.steps)
          /\ get_current_step(pipeline', current_step_index') # NoStep
          /\ (ed_last'.op = "remove_step" /\ ed_last'.ret = "True"
                /\ ed_last'.a = current_step_index)
               => current_step_index' = (IF ed_last'.a - 1 > 0 THEN ed_last'.a - 1 ELSE 0)
      ]_vars

\* the position at which the step selected at cur is found after the steps at
\* index and index + direction were swapped
SelectionAfterMove(cur, index, direction) ==
    IF cur = index THEN index + direction
    ELSE IF cur = index + direction THEN index
    ELSE cur

\* the position at which the step selected at cur is found after the step at
\* index (1..n) was removed, max(0, index - 1) when it was the selected one; a
\* removal that removed nothing moves nothing
SelectionAfterRemove(cur, index, n) ==
    IF index < 1 \/ index > n THEN cur
    ELSE IF cur = index THEN (IF index - 1 > 0 THEN index - 1 ELSE 0)
    ELSE IF cur > index THEN cur - 1
    ELSE cur

\* C28: after every successful EditorController.move_step or remove_step,
\* current_step_index designates the same step that was selected before the
\* operation (or max(0, index-1) when the selected step itself was removed);
\* moving a step leaves current_step_index unchanged unless the selected step
\* is one of the two steps that were swapped.
C28_SelectionFollowsStep ==
    [][ /\ (ed_last'.op = "move_step" /\ ed_last'.ret = "True") =>
               current_step_index' =
                   SelectionAfterMove(current_step_index, ed_last'.a, ed_last'.b)
        /\ (ed_last'.op = "remove_step" /\ ed_last'.ret = "True") =>
               current_step_index' =
                   SelectionAfterRemove(current_step_index, ed_last'.a,
                                        Len(pipeline.steps))
      ]_vars

C18_NameMatchesParameter ==
    pipeline # NoPipeline =>
        \A k \in 1..Len(pipeline.steps) :
            /\ DictHas(pipeline.steps[k].parameters, K_STEP_NAME)
            /\ pipeline.steps[k].name = DictGet(pipeline.steps[k].parameters, K_STEP_NAME)
            /\ DictKeys(to_dict(pipeline).steps)
                 = { DictGet(pipeline.steps[j].parameters, K_STEP_NAME) :
                        j \in 1..Len(pipeline.steps) }

\* C19: set_version(v) raises nothing, with or without a pipeline; afterwards
\* the controller and the validator hold v, a loaded pipeline has version v,
\* and version_changed was fired when a pipeline is loaded.
C19_SetVersionPropagates ==
    ed_last.op = "set_version" =>
        /\ ed_last.exc = ""
        /\ ed_version = ed_last.a
        /\ validator_version = ed_last.a
        /\ pipeline # NoPipeline =>
              /\ pipeline.version = ed_last.a
              /\ ed_last.fired = 1 /\ ed_last.notified = 1

(***************************************************************************)
(* Properties of the experiment controller                                 *)
(***************************************************************************)
\* the position, as (slice, 0-based step), from which every step that has not
\* run yet runs: the step after the last one started if it completed, that
\* step itself if it did not, the starting position if no step was started
ExactResumePosition(r) ==
    LET s == hist[r].last[1]
        k == hist[r].last[2]
    IN  IF hist[r].calls = 0 THEN <<wk[r].starting_slice, wk[r].starting_step_idx>>
        ELSE IF hist[r].last_result # "ok" THEN <<s, k - 1>>
        ELSE IF k < wk[r].num_steps THEN <<s, k>>
        ELSE <<s + 1, 0>>

\* C2: whenever a run ends with experiment_stopped(slice, step), the reported
\* position is the step after the last started step if that step completed,
\* and that same step otherwise, so that no step that has not run is skipped.
C2_ResumePositionExact ==
    \A r \in Runs : hist[r].terminal = "stopped" => hist[r].pos = ExactResumePosition(r)

\* C3: experiment_completed is fired only when the last step started is the
\* final step of the final slice, it returned successfully, and the run was
\* neither failed nor hard-stopped (should_stop_now is not set).
C3_CompletedOnlyAfterSuccess ==
    \A r \in Runs :
        hist[r].terminal = "completed" =>
            /\ hist[r].last = <<cfg.slices, cfg.steps>>
            /\ hist[r].last_result = "ok"
            /\ ~hist[r].flags_at_exit[3]

C5_NoExceptionEscapes ==
    \A r \in Runs :
        hist[r].last_result = "exc" => wk[r].exc \notin {"OSError", "RuntimeError"}

C7_RefusedStartNoEffect ==
    [][ (ui'.op = "start" /\ ui'.event \in {"error", "validation_failed"} /\ wk' = wk)
        => /\ ~ui'.ret
           /\ state' = state
           /\ nruns' = nruns
           /\ kbi' = kbi
           /\ hist' = hist
           /\ (ui'.event = "validation_failed" => ~state'.is_running) ]_vars

\* start_experiment was refused while a step of the second slice executes, with
\* a stop-after-slice request pending and progress made
C7_Witness ==
    /\ ui.op = "start" /\ ui.event = "error" /\ ~ui.ret
    /\ wk[1].pc = "perform_step"
    /\ wk[1].i = 2
    /\ state.should_stop_slice
    /\ state.progress_percent > 0

\* The run of the example has ended: 2 slices of 2 steps, started at slice 1
\* step 0; request_stop_after_step came while step 2 of slice 1 executed, that
\* step returned normally, and no other stop was requested.
ExampleStoppedAfterStep ==
    /\ cfg = [slices |-> 2, steps |-> 2]
    /\ wk[1].starting_slice = 1 /\ wk[1].starting_step_idx = 0
    /\ hist[1].step_req = 2
    /\ hist[1].last = <<1, 2>> /\ hist[1].last_result = "ok"
    /\ hist[1].flags_at_exit = <<TRUE, FALSE, FALSE>>
    /\ ~hist[1].hard
    /\ hist[1].escaped = ""
    /\ hist[1].terminal # "none"

\* C24 as stated: with total_slices=2 and steps_per_slice=2, a run started at
\* slice 1 step 0 in which should_stop_step is raised during slice 1 step 2,
\* that step completing successfully, ends with progress_percent = 50 and
\* resume position (slice 1, step index 2).
C24_ResumeAsStated ==
    ExampleStoppedAfterStep =>
        /\ hist[1].terminal = "stopped"
        /\ hist[1].pos = <<1, 2>>
        /\ state.progress_percent = 50

\* C24 amended: the run ends with progress_percent = 50 and experiment_stopped
\* reports the resume position (slice 2, step index 0), the first step of the
\* next slice.
C24_ResumeNextSlice ==
    ExampleStoppedAfterStep =>
        /\ hist[1].terminal = "stopped"
        /\ hist[1].pos = <<2, 0>>
        /\ state.progress_percent = 50

C24_Witness ==
    /\ ExampleStoppedAfterStep
    /\ hist[1].calls = 2
    /\ wk[1].pc = "dead"

\* C26: is_running never remains True when no worker thread is alive (every
\* accepted start_experiment, also one with a starting_slice greater than
\* total_slices or a starting_step that is not in the step sequence, is
\* followed by is_running becoming False): whenever the UI thread is between
\* calls, is_running implies a live worker thread.
C26_RunningHasWorker ==
    (ui.pc = "idle" /\ state.is_running) => \E r \in Runs : Alive(r)

\* C27: a hard stop whose KeyboardInterrupt is delivered at any point of the
\* worker (inside a step, between steps, inside the interrupt handler, inside
\* the cleanup) does not escape the worker thread; the cleanup runs to its
\* end, is_running is False, the flags are cleared and a terminal
\* notification was fired.  Stated of the hard-stopped runs that entered the
\* loop and from which no other exception escaped.
C27_HardStopContained ==
    \A r \in Runs :
        (/\ hist[r].hard /\ wk[r].pc = "dead" /\ wk[r].i # 0
         /\ hist[r].escaped \in {"", "KeyboardInterrupt"})
        => /\ hist[r].escaped = ""
           /\ hist[r].retracts = 1
           /\ hist[r].cleared
           /\ ~state.is_running
           /\ ~state.should_stop_step /\ ~state.should_stop_slice /\ ~state.should_stop_now
           /\ hist[r].terminal # "none"

\* the pair after (slice, step) in slice-major order, steps numbered from 1
NextPair(pair, steps_per_slice) ==
    IF pair[2] < steps_per_slice THEN <<pair[1], pair[2] + 1>> ELSE <<pair[1] + 1, 1>>

\* so far every step of run r has succeeded and no stop was requested of it
CleanSoFar(r) ==
    /\ hist[r].last_result \in {"none", "ok"}
    /\ ~hist[r].requested
    /\ wk[r].exc = ""

\* run r has left its loop, every step having succeeded and no stop requested
CleanRunEnded(r) ==
    /\ wk[r].pc \in {"retract", "clear_state", "clear_flags", "notify", "dead"}
    /\ wk[r].i # 0
    /\ hist[r].last_result \in {"none", "ok"}
    /\ ~hist[r].requested
    /\ wk[r].exc = "" /\ hist[r].escaped = ""

\* C29: in a run started at (starting_slice, starting_step_idx) in which every
\* step succeeds and no stop is requested, perform_step is called exactly once
\* for each pair (slice, step) with slice in starting_slice..total_slices and
\* step in 1..steps_per_slice, in increasing slice-major order, skipping only
\* the steps before starting_step_idx on the starting slice: the first call is
\* (starting_slice, starting_step_idx + 1), each later call is the pair after
\* the previous one, and the run ends after (total_slices, steps_per_slice).
C29_EveryStepOnceInOrder ==
    /\ [][ \A r \in Runs :
             (hist'[r].calls # hist[r].calls /\ CleanSoFar(r)) =>
                /\ hist'[r].calls = hist[r].calls + 1
                /\ hist'[r].last =
                      IF hist[r].calls = 0
                      THEN <<wk[r].starting_slice, wk[r].starting_step_idx + 1>>
                      ELSE NextPair(hist[r].last, wk[r].num_steps) ]_vars
    /\ [](\A r \in Runs :
             CleanRunEnded(r) =>
                /\ hist[r].last = <<wk[r].ending_slice, wk[r].num_steps>>
                /\ hist[r].calls =
                      (wk[r].ending_slice - wk[r].starting_slice) * wk[r].num_steps
                      + (wk[r].num_steps - wk[r].starting_step_idx))

\* a run started in the middle of the first of three slices of two steps has
\* ended after five successful steps
C29_Witness ==
    /\ CleanRunEnded(1)
    /\ wk[1].pc = "dead"
    /\ wk[1].starting_slice = 1 /\ wk[1].starting_step_idx = 1
    /\ wk[1].ending_slice = 3 /\ wk[1].num_steps = 2
    /\ hist[1].calls = 5

\* C30: every run that fired experiment_started fires exactly one terminal
\* notification, experiment_completed or experiment_stopped, and only after
\* is_running was set to False; the thread does nothing after it.  A thread
\* that has ended has fired it.
C30_OneTerminalNotification ==
    \A r \in Runs :
        /\ hist[r].terminal # "none" => (hist[r].cleared /\ wk[r].pc = "dead")
        /\ wk[r].pc = "dead" => hist[r].terminal \in {"completed", "stopped"}

\* the worker r is inside, or at the call of, workflow.perform_step, stage.stop
\* or retract_all_devices
InDeviceCall(r) == wk[r].pc \in {"perform_step", "stop_stage", "retract"}

\* the thread of run r has been started
Launched(r) == wk[r].pc # "none"

\* no two worker threads are in a device call at once
DeviceCallsExclusive ==
    \A r1, r2 \in Runs : r1 # r2 => ~(InDeviceCall(r1) /\ InDeviceCall(r2))

\* C21: at most one device operation (workflow.perform_step, stage.stop,
\* retract_all_devices) is in flight at any time, and a second worker is never
\* launched while an earlier worker is still executing a step or its cleanup:
\* whenever a later worker has been launched, every earlier worker has ended.
C21_SingleWorker ==
    /\ DeviceCallsExclusive
    /\ \A r1, r2 \in Runs : (r1 < r2 /\ Launched(r2)) => ~Alive(r1)

\* the distinct strings of a sequence of additions, the most recently added first
RECURSIVE MostRecentFirst(_)
MostRecentFirst(history) ==
    IF history = <<>> THEN <<>>
    ELSE LET x == history[Len(history)]
         IN  <<x>> \o MostRecentFirst(SelectSeq(SubSeq(history, 1, Len(history) - 1),
                                                LAMBDA y : y # x))

\* C25: after any sequence of add_recent_config calls, recent_configs contains
\* no duplicate, holds at most max_recent_files entries and is ordered most
\* recently added first; re-adding a path already in the list moves it to the
\* front without changing the length, and adding a new path to a full list
\* drops only the least recently added one.
C25_RecentConfigs ==
    /\ [](/\ \A j, k \in 1..Len(recent_configs) :
                j # k => recent_configs[j] # recent_configs[k]
          /\ Len(recent_configs) <= max_recent_files
          /\ recent_configs = SliceTo(MostRecentFirst(added), max_recent_files))
    /\ [][ added' # added =>
             LET config_str == added'[Len(added')]
                 n == Len(recent_configs)
             IN  /\ ListContains(recent_configs, config_str) =>
                        /\ Len(recent_configs') = n
                        /\ recent_configs'[1] = config_str
                 /\ (~ListContains(recent_configs, config_str)
                        /\ n = max_recent_files /\ n > 0) =>
                        recent_configs' = <<config_str>> \o SubSeq(recent_configs, 1, n - 1)
           ]_vars

\* a full list in which the entry added first was dropped and the entry
\* added second was added again and moved to the front
C25_Witness ==
    /\ Len(added) = 4
    /\ max_recent_files = 2
    /\ added[4] = added[2]
    /\ added[1] # added[2] /\ added[3] # added[1] /\ added[3] # added[2]
    /\ recent_configs = <<added[2], added[3]>>

\* C22: after each successfully completed step step_num of slice s,
\* progress_percent equals floor(((s-1)*steps_per_slice + step_num) * 100 /
\* (total_slices*steps_per_slice)); it stays within 0..100 and is 100 exactly
\* at the last step of the last slice.
C22_ProgressIsFloor ==
    prog.applied =>
        /\ prog.progress_percent = floor_percent(prog.slice_num, prog.step_num,
                                                 prog.total_slices, prog.total_steps)
        /\ prog.progress_percent \in 0..100
        /\ (prog.progress_percent = 100) <=>
               (prog.slice_num = prog.total_slices /\ prog.step_num = prog.total_steps)

\* what does hold of the float expression: the value is the floor or one less,
\* within 0..100, and 100 exactly at the last step of the last slice
ProgressWithinOne ==
    prog.applied =>
        LET exact == floor_percent(prog.slice_num, prog.step_num,
                                   prog.total_slices, prog.total_steps)
        IN  /\ prog.progress_percent \in {exact, exact - 1}
            /\ prog.progress_percent \in 0..100
            /\ (prog.progress_percent = 100) <=>
                   (prog.slice_num = prog.total_slices /\ prog.step_num = prog.total_steps)

(***************************************************************************)
(* Specifications.                                                         *)
(***************************************************************************)
PipeIdle ==
    /\ pipeline = NoPipeline
    /\ p_last = [op |-> "none", a |-> 0, b |-> 0, ret |-> "", exc |-> ""]
    /\ p_edits = 0
    /\ reloaded = NoPipeline

\* no EditorController constructed
EdIdle ==
    /\ current_step_index = 0
    /\ ed_version = 0
    /\ validator_version = 0
    /\ ed_last = NoCall

\* no document read, no conversion made
IoIdle ==
    /\ document = NoDocument
    /\ conv = NoConversion

\* no progress computed, no AppConfig constructed
AppIdle ==
    /\ prog = NoProgress
    /\ recent_configs = <<>>
    /\ max_recent_files = 0
    /\ added = <<>>

InitLUT == LutInit /\ PipeIdle /\ RunIdle /\ EdIdle /\ IoIdle /\ AppIdle

SpecLUT == InitLUT /\ [][LutNext]_vars

InitPipeline == PipeInit /\ LutInit /\ RunIdle /\ EdIdle /\ IoIdle /\ AppIdle

SpecPipeline == InitPipeline /\ [][PipeNext]_vars

SpecPipelineIO == InitPipeline /\ [][PipeIONext]_vars

InitRun == RunInit /\ LutInit /\ PipeIdle /\ EdIdle /\ IoIdle /\ AppIdle

SpecRun == InitRun /\ [][RunNext]_vars

InitRelaunch == RelaunchInit /\ LutInit /\ PipeIdle /\ EdIdle /\ IoIdle /\ AppIdle

SpecRelaunch == InitRelaunch /\ [][RelaunchNext]_vars

InitProgress ==
    ProgInit /\ recent_configs = <<>> /\ max_recent_files = 0 /\ added = <<>>
    /\ LutInit /\ PipeIdle /\ RunIdle /\ EdIdle /\ IoIdle

SpecProgress == InitProgress /\ [][ProgNext]_vars

InitRecent == RecentInit /\ LutInit /\ PipeIdle /\ RunIdle /\ EdIdle /\ IoIdle

SpecRecent == InitRecent /\ [][RecentNext]_vars

InitLoad == LoadInit /\ LutInit /\ RunIdle /\ EdIdle /\ AppIdle

SpecLoad == InitLoad /\ [][LoadNext]_vars

InitConvert == ConvInit /\ LutInit /\ PipeIdle /\ RunIdle /\ EdIdle /\ AppIdle

SpecConvert == InitConvert /\ [][ConvNext]_vars

InitEditor == EdInit /\ LutInit /\ RunIdle /\ IoIdle /\ AppIdle

SpecEditor == InitEditor /\ [][EdNext]_vars

SpecEditorParams == InitEditor /\ [][EdParamNext]_vars

=============================================================================
